---- MODULE Spec2Model ----
(***************************************************************************)
(* calculateRouteSegments (src/utils/routeUtils.js), the route             *)
(* segmentation routine of the weather map, as a state machine: one call   *)
(* of the function, followed statement by statement through its guard,     *)
(* its short-route return, its sampling loop and its catch block.          *)
(*                                                                         *)
(* Numbers.  Distances are counted in 1/UnitsPerKm km, so that             *)
(* distancePerInterval = averageSpeedKmh * intervalMinutes / 60 is the     *)
(* integer averageSpeedKmh * intervalMinutes.  Times are exact rationals   *)
(* or the IEEE values NaN, +Infinity, -Infinity that a division by zero     *)
(* produces.  Rounding of doubles is not modelled.                         *)
(*                                                                         *)
(* Geometry.  Route points are [lat, lng] pairs on the equator, lng        *)
(* counted in the distance unit, so the great-circle distance of two       *)
(* points is the absolute difference of their lng.                         *)
(*                                                                         *)
(* Specifications.  Spec follows one call.  SpecCalls follows the calls    *)
(* of one page, one after another.  SpecTravel is the travel page:         *)
(* TravelContext and the handlers of the route form, the route history     *)
(* and the favorite routes.  SpecRouting is one call of                    *)
(* routingService.getRoute.                                                *)
(* SpecSubmit (FairSubmit: its requests settle) is handleSubmit with the   *)
(* weather queries of the waypoint cards.  SpecStore is the routeHistory   *)
(* collection under saveRouteHistory and cleanupOldRoutes.                 *)
(* SpecWeatherRequest is one call of makeWeatherRequest,                   *)
(* SpecWeatherAtTime one call of weatherService.getWeatherAtTime.          *)
(* SpecRoundTrip is the coordinates of a route through the history.        *)
(***************************************************************************)
EXTENDS Integers, Sequences, FiniteSets

\* ---------------------------------------------------------------- bounds

\* longest polyline (number of points) a call is made with
MaxLen == 3

\* iterations of the sampling loop followed when its step is not positive
MaxSpin == 3

\* ------------------------------------------------------ program constants

\* intervalMinutes = 30
DefaultInterval == 30

\* averageSpeedKmh = 80
DefaultSpeed == 80

\* departureTimeMinutes = 0
DefaultDeparture == 0

\* the 60 of (averageSpeedKmh * intervalMinutes) / 60: distance units per km
UnitsPerKm == 60

\* ------------------------------------------------------------ JS values

\* an argument that was not passed (undefined), and one that was
None == <<>>

Some(x) == <<x>>

\* null, as an element of the coordinate list
NullPoint == <<>>

Abs(x) == IF x < 0 THEN -x ELSE x

RECURSIVE Gcd(_, _)
Gcd(a, b) == IF b = 0 THEN a ELSE Gcd(b, a % b)

\* a finite double that is the rational n/d, in lowest terms with d > 0
Num(n, d) ==
  LET g == Gcd(Abs(n), Abs(d))
      s == IF d < 0 THEN -1 ELSE 1
  IN  [kind |-> "num", n |-> (s * n) \div g, d |-> (s * d) \div g]

NaN == [kind |-> "nan", n |-> 0, d |-> 1]

PosInf == [kind |-> "inf", n |-> 1, d |-> 0]

NegInf == [kind |-> "inf", n |-> -1, d |-> 0]

\* a <= b on doubles: false as soon as one side is NaN
Leq(a, b) ==
  CASE a.kind = "nan" \/ b.kind = "nan" -> FALSE
    [] a.kind = "inf" -> a.n < 0 \/ (b.kind = "inf" /\ b.n > 0)
    [] b.kind = "inf" -> b.n > 0
    [] OTHER -> a.n * b.d <= b.n * a.d

\* ------------------------------------------------------------ arguments

\* a parameter with a default value: the default stands in for undefined only
DefaultParam(arg, dflt) == IF arg = None THEN dflt ELSE arg[1]

\* mutant of TooShort: the guard written with length < 1
TooShortOffByOne(route) == route = None \/ Len(route[1]) < 1

\* !routeCoordinates || routeCoordinates.length < 2
TooShort(route) == route = None \/ Len(route[1]) < 2

\* the places (km along the equator) route points are drawn from
KmMarks == {0, 10, 111, 120}

Point(km) == <<0, km * UnitsPerKm>>

PointChoices == {Point(km) : km \in KmMarks} \cup {NullPoint}

Polylines == UNION {[1..n -> PointChoices] : n \in 0..MaxLen}

RouteChoices == {None} \cup {Some(p) : p \in Polylines}

IntervalChoices == {None, Some(30), Some(0), Some(-30)}

SpeedChoices == {None, Some(80), Some(15), Some(0), Some(-80)}

DepartureChoices == {None, Some(45)}

\* sets of distances at which turf.along is made to throw
FaultChoices == {{}, {40 * UnitsPerKm}, {40 * UnitsPerKm, 80 * UnitsPerKm}}

\* ------------------------------------------------------------- geometry

\* routeCoordinates.map((coord) => [coord[1], coord[0]]): [lng, lat] for turf
LineString(coords) == [i \in 1..Len(coords) |-> <<coords[i][2], coords[i][1]>>]

\* coord[1] of null is a TypeError
LineStringThrows(coords) == \E i \in 1..Len(coords) : coords[i] = NullPoint

\* great-circle distance of two [lng, lat] positions on the equator
Distance(p, q) == Abs(p[1] - q[1])

RECURSIVE LengthFrom(_, _)
LengthFrom(line, i) ==
  IF i >= Len(line) THEN 0
  ELSE Distance(line[i], line[i + 1]) + LengthFrom(line, i + 1)

\* turf.length(line, { units: "kilometers" })
TurfLength(line) == LengthFrom(line, 1)

\* turf.destination from `from` back towards `towards` by `back` units
Destination(from, towards, back) ==
  IF towards[1] < from[1] THEN <<from[1] - back, from[2]>>
  ELSE <<from[1] + back, from[2]>>

RECURSIVE AlongFrom(_, _, _, _)
AlongFrom(line, dist, i, travelled) ==
  IF dist >= travelled /\ i = Len(line) THEN line[Len(line)]
  ELSE IF travelled >= dist
       THEN IF dist = travelled THEN line[i]
            ELSE Destination(line[i], line[i - 1], travelled - dist)
       ELSE AlongFrom(line, dist, i + 1,
                      travelled + Distance(line[i], line[i + 1]))

\* turf.along(line, dist): the position dist along the line, the last vertex
\* when dist is beyond the end (0 <= dist)
TurfAlong(line, dist) == AlongFrom(line, dist, 1, 0)

\* What turf.along(line, dist) can do: None when it throws, Some(position)
\* otherwise.  It throws where a fault is injected.  Before the start of the
\* line the library either throws (it reads the vertex before the first) or
\* answers the first vertex, depending on its version.
AlongOutcomes(line, dist, faults) ==
  IF dist \in faults THEN {None}
  ELSE IF dist < 0 THEN {None, Some(line[1])}
  ELSE {Some(TurfAlong(line, dist))}

\* departureTimeMinutes + (distance / averageSpeedKmh) * 60, in minutes
EstimatedTime(departure, dist, speed) ==
  IF speed = 0
  THEN IF dist = 0 THEN NaN ELSE IF dist > 0 THEN PosInf ELSE NegInf
  ELSE Num(departure * speed + dist, speed)

\* mutant of DistancePerInterval: the distance of an hour
DistancePerHour(speed, interval) == speed * UnitsPerKm

\* (averageSpeedKmh * intervalMinutes) / 60, in distance units
DistancePerInterval(speed, interval) == speed * interval

\* ------------------------------------------------------------ waypoints

\* a waypoint of the general case and of the fallback
Segment(coordinates, dist, time, index) ==
  [coordinates |-> coordinates, distanceFromStart |-> dist,
   estimatedTime |-> time, segmentIndex |-> index]

\* a waypoint of the short-route return, which sets no segmentIndex
ShortSegment(coordinates, dist, time) ==
  [coordinates |-> coordinates, distanceFromStart |-> dist,
   estimatedTime |-> time]

\* mutant of ShortRoute: the end's time without the departure offset
ShortRouteNoOffset(coords, total, speed, departure) ==
  << ShortSegment(coords[1], 0, Num(departure, 1)),
     ShortSegment(coords[Len(coords)], total,
                  EstimatedTime(0, total, speed)) >>

\* the two waypoints returned when totalDistance <= distancePerInterval
ShortRoute(coords, total, speed, departure) ==
  << ShortSegment(coords[1], 0, Num(departure, 1)),
     ShortSegment(coords[Len(coords)], total,
                  EstimatedTime(departure, total, speed)) >>

\* segments.push of the starting point
StartSegment(coords, departure) ==
  Segment(coords[1], 0, Num(departure, 1), 0)

\* segments.push of a point along the route: [lat, lng] of turf's [lng, lat]
AlongSegment(position, dist, speed, departure, index) ==
  Segment(<<position[2], position[1]>>, dist,
          EstimatedTime(departure, dist, speed), index)

\* mutant of EndSegment: the ending point pushed at distance 0, as the
\* catch block does
EndSegmentAtZero(coords, total, speed, departure, index) ==
  Segment(coords[Len(coords)], 0,
          EstimatedTime(departure, total, speed), index)

\* segments.push of the ending point
EndSegment(coords, total, speed, departure, index) ==
  Segment(coords[Len(coords)], total,
          EstimatedTime(departure, total, speed), index)

\* mutant of FallbackRoute: the starting point returned twice
FallbackRouteStartTwice(coords, departure) ==
  << Segment(coords[1], 0, Num(departure, 1), 0),
     Segment(coords[1], 0, Num(departure, 1), 1) >>

\* mutant of FallbackRoute: the two points numbered 1 and 2
FallbackRouteIndexedFromOne(coords, departure) ==
  << Segment(coords[1], 0, Num(departure, 1), 1),
     Segment(coords[Len(coords)], 0, Num(departure, 1), 2) >>

\* the two waypoints of the catch block
FallbackRoute(coords, departure) ==
  << Segment(coords[1], 0, Num(departure, 1), 0),
     Segment(coords[Len(coords)], 0, Num(departure, 1), 1) >>

\* mutant of LoopCondition: the loop runs while the cursor is before the end
LoopConditionNoMargin(current, total, perInterval) == current < total

\* mutant of LoopCondition: the loop also runs when one more step ends
\* exactly at the end of the route
LoopConditionInclusive(current, total, perInterval) ==
  current <= total - perInterval

\* currentDistance < totalDistance - distancePerInterval
LoopCondition(current, total, perInterval) == current < total - perInterval

\* mutant of Handler: no try around turf.along, every exception enters the
\* catch block
HandlerOuterOnly(site) == "catch"

\* where an exception raised at `site` takes control: the try around
\* turf.along continues the loop, the outer try enters the catch block
Handler(site) == IF site = "along" THEN "loop" ELSE "catch"

\* ------------------------------------------------- the call as a function

\* the segments list when the while loop is left, from the cursor `current`
\* and the list `segs` built so far (perInterval > 0)
RECURSIVE Sampled(_, _, _, _, _, _, _, _)
Sampled(ln, total, perInterval, speed, departure, faults, current, segs) ==
  IF ~LoopCondition(current, total, perInterval) THEN segs
  ELSE LET next == current + perInterval
           point == CHOOSE o \in AlongOutcomes(ln, next, faults) : TRUE
       IN  Sampled(ln, total, perInterval, speed, departure, faults, next,
                   IF point = None THEN segs
                   ELSE Append(segs, AlongSegment(point[1], next, speed,
                                                  departure, Len(segs))))

\* whether calculateRouteSegments returns for these bound parameters: the
\* guard, the catch block and the short-route return always do, the loop
\* does when its step is positive
Returns(route, interval, speed, geomFault) ==
  \/ TooShort(route)
  \/ geomFault
  \/ LineStringThrows(route[1])
  \/ TurfLength(LineString(route[1])) <= DistancePerInterval(speed, interval)
  \/ DistancePerInterval(speed, interval) > 0

\* what calculateRouteSegments returns, where it returns
CalculateRouteSegments(route, interval, speed, departure, faults, geomFault) ==
  IF TooShort(route) THEN <<>>
  ELSE IF geomFault \/ LineStringThrows(route[1])
  THEN FallbackRoute(route[1], departure)
  ELSE LET ln == LineString(route[1])
           total == TurfLength(ln)
           perInterval == DistancePerInterval(speed, interval)
       IN  IF total <= perInterval
           THEN ShortRoute(route[1], total, speed, departure)
           ELSE LET segs == Sampled(ln, total, perInterval, speed, departure,
                                    faults, 0,
                                    <<StartSegment(route[1], departure)>>)
                IN  Append(segs, EndSegment(route[1], total, speed, departure,
                                            Len(segs)))

\* -------------------------------------------------------------- the call

VARIABLES
  routeCoordinates,       \* the polyline passed: None, or Some(list of points)
  passed,                 \* the three optional arguments as passed
  intervalMinutes,        \* the parameters as bound, defaults applied
  averageSpeedKmh,
  departureTimeMinutes,
  alongFaults,            \* distances at which turf.along throws
  geometryFault,          \* whether turf.lineString / turf.length throws on
                          \* points that are pairs (a turf that rejects their
                          \* representation, or any other failure in the try)
  pc,                     \* the statement the call is at
  line,
  totalDistance,
  distancePerInterval,
  segments,
  currentDistance,
  segmentIndex,
  result,                 \* the returned list, once pc = "done"
  returnedAt              \* the return statement taken

vars ==
  << routeCoordinates, passed, intervalMinutes, averageSpeedKmh,
     departureTimeMinutes, alongFaults, geometryFault, pc, line,
     totalDistance, distancePerInterval, segments, currentDistance,
     segmentIndex, result, returnedAt >>

inputs ==
  << routeCoordinates, passed, intervalMinutes, averageSpeedKmh,
     departureTimeMinutes, alongFaults, geometryFault >>

\* ------------------------------------------------ the callers of the call

VARIABLES
  calls,                  \* the number of the call followed, from 1
  earlier,                \* the calls that returned before it: what they
                          \* were given and what they returned
  route,                  \* TravelContext: None, or Some(coordinates)
  weatherPoints,
  travelMode,
  updateInterval,
  departureTime,
  history,                \* the routeHistory documents saved
  loaded,                 \* which definition of routingService is loaded
  orsApiKey,              \* ORS_API_KEY
  start,                  \* the arguments of getRoute
  end,
  profile,
  orsAnswer,              \* what a request to each provider will meet
  osrmAnswer,
  at,                     \* the statement getRoute is at
  requests,               \* the providers requested so far, in order
  answer                  \* the provider whose route getRoute returned

repeated == << calls, earlier >>

travel ==
  << route, weatherPoints, travelMode, updateInterval, departureTime,
     history >>

routing ==
  << loaded, orsApiKey, start, end, profile, orsAnswer, osrmAnswer, at,
     requests, answer >>

\* the first call, none before it
FirstCall == calls = 1 /\ earlier = <<>>

\* TravelContext as its useState calls leave it, nothing saved
InitialTravel ==
  /\ route = None
  /\ weatherPoints = <<>>
  /\ travelMode = "driving-car"
  /\ updateInterval = 30
  /\ departureTime = 0
  /\ history = {}

\* no call of getRoute
NoRouting ==
  /\ loaded = "history"
  /\ orsApiKey = "YOUR_ORS_API_KEY"
  /\ start = None
  /\ end = None
  /\ profile = None
  /\ orsAnswer = "route"
  /\ osrmAnswer = "route"
  /\ at = "idle"
  /\ requests = <<>>
  /\ answer = None

\* no call of calculateRouteSegments
NoCall ==
  /\ routeCoordinates = None
  /\ passed = [intervalMinutes |-> None, averageSpeedKmh |-> None,
               departureTimeMinutes |-> None]
  /\ intervalMinutes = DefaultInterval
  /\ averageSpeedKmh = DefaultSpeed
  /\ departureTimeMinutes = DefaultDeparture
  /\ alongFaults = {}
  /\ geometryFault = FALSE
  /\ pc = "idle"
  /\ line = <<>>
  /\ totalDistance = 0
  /\ distancePerInterval = 0
  /\ segments = <<>>
  /\ currentDistance = 0
  /\ segmentIndex = 0
  /\ result = <<>>
  /\ returnedAt = "none"

\* ------------------------------------------- the page and the services

VARIABLES
  stage,                  \* the await handleSubmit is at, or "idle"
  isLoading,              \* TravelContext
  error,
  lookups,                \* the weather queries in flight, by query key
  weather                 \* the query keys that have their weather

page == << stage, isLoading, error, lookups, weather >>

\* no submit, nothing looked up
NoSubmit ==
  /\ stage = "idle"
  /\ isLoading = FALSE
  /\ error = None
  /\ lookups = {}
  /\ weather = {}

VARIABLES
  documents,              \* the routeHistory collection of Firestore
  everStored,             \* every document the collection has held
  deletedBy,              \* the deletes done: the document, the caller's userId
  saves,                  \* the saveRouteHistory call of each page
  saveCalls               \* the calls made

store == << documents, everStored, deletedBy, saves, saveCalls >>

\* no collection, no call of saveRouteHistory
NoStore ==
  /\ documents = {}
  /\ everStored = {}
  /\ deletedBy = {}
  /\ saves = <<>>
  /\ saveCalls = 0

VARIABLES
  maxRetries,             \* makeWeatherRequest: its argument,
  attempt,                \* its loop counter,
  lastError,              \* the error of the last catch,
  fetching,               \* the await it is at, or how it ended,
  sent,                   \* the outcome of every axios.get it has made
  outcome                 \* the response returned or the error thrown

weatherRequest == << maxRetries, attempt, lastError, fetching, sent, outcome >>

\* makeWeatherRequest not called
NoWeatherRequest ==
  /\ maxRetries = None
  /\ attempt = 0
  /\ lastError = None
  /\ fetching = "idle"
  /\ sent = <<>>
  /\ outcome = None

VARIABLES
  apiKeyValid,            \* what validateApiKey finds
  coordinatesOk,          \* what validateCoordinates finds for lat, lon
  minutesFromNow,         \* getWeatherAtTime: its argument,
  awaited,                \* the await it is at, or how it ended,
  caught,                 \* the error its catch block got,
  currentCalls,           \* how each of its getCurrentWeather calls ended,
  returned,               \* the object it returned,
  thrown                  \* the error it threw

weatherAtTime ==
  << apiKeyValid, coordinatesOk, minutesFromNow, awaited, caught,
     currentCalls, returned, thrown >>

\* getWeatherAtTime not called
NoWeatherAtTime ==
  /\ apiKeyValid = TRUE
  /\ coordinatesOk = TRUE
  /\ minutesFromNow = None
  /\ awaited = "idle"
  /\ caught = None
  /\ currentCalls = <<>>
  /\ returned = None
  /\ thrown = None

VARIABLES
  favorites,              \* the favoriteRoutes documents of the user
  lastLoaded              \* the favorite last given to handleLoadFavorite

favoriteRoutes == << favorites, lastLoaded >>

\* no favorite saved, none loaded
NoFavorites ==
  /\ favorites = {}
  /\ lastLoaded = None

VARIABLES
  given,                  \* routeData.coordinates of a saveRouteHistory call
  stored,                 \* the coordinates field of the document written
  rebuilt                 \* reconstructedCoordinates of its load

roundTrip == << given, stored, rebuilt >>

\* no route saved
NoRoundTrip ==
  /\ given = <<>>
  /\ stored = None
  /\ rebuilt = None

further ==
  << page, store, weatherRequest, weatherAtTime, favoriteRoutes, roundTrip >>

NothingFurther ==
  /\ NoSubmit /\ NoStore /\ NoWeatherRequest /\ NoWeatherAtTime
  /\ NoFavorites /\ NoRoundTrip

\* the call is entered: arguments bound, nothing computed
Init ==
  /\ FirstCall
  /\ InitialTravel
  /\ NoRouting
  /\ NothingFurther
  /\ routeCoordinates \in RouteChoices
  /\ passed \in [intervalMinutes : IntervalChoices,
                 averageSpeedKmh : SpeedChoices,
                 departureTimeMinutes : DepartureChoices]
  /\ intervalMinutes = DefaultParam(passed.intervalMinutes, DefaultInterval)
  /\ averageSpeedKmh = DefaultParam(passed.averageSpeedKmh, DefaultSpeed)
  /\ departureTimeMinutes =
       DefaultParam(passed.departureTimeMinutes, DefaultDeparture)
  /\ alongFaults \in FaultChoices
  /\ geometryFault \in BOOLEAN
  /\ pc = "guard"
  /\ line = <<>>
  /\ totalDistance = 0
  /\ distancePerInterval = 0
  /\ segments = <<>>
  /\ currentDistance = 0
  /\ segmentIndex = 0
  /\ result = <<>>
  /\ returnedAt = "none"

\* if (!routeCoordinates || routeCoordinates.length < 2) return [];
Guard ==
  /\ pc = "guard"
  /\ IF TooShort(routeCoordinates)
     THEN /\ pc' = "done"
          /\ returnedAt' = "empty"
          /\ result' = <<>>
     ELSE /\ pc' = "measure"
          /\ UNCHANGED <<returnedAt, result>>
  /\ UNCHANGED <<inputs, line, totalDistance, distancePerInterval, segments,
                 currentDistance, segmentIndex>>
  /\ UNCHANGED <<repeated, travel, routing, further>>

\* turf.lineString and turf.length throw: control goes to the handler
MeasureThrows ==
  /\ pc = "measure"
  /\ geometryFault \/ LineStringThrows(routeCoordinates[1])
  /\ pc' = Handler("geometry")
  /\ UNCHANGED <<inputs, line, totalDistance, distancePerInterval, segments,
                 currentDistance, segmentIndex, result, returnedAt>>
  /\ UNCHANGED <<repeated, travel, routing, further>>

\* mutant of Measure: segments kept between calls, never emptied
MeasureKeepingSegments ==
  /\ pc = "measure"
  /\ ~(geometryFault \/ LineStringThrows(routeCoordinates[1]))
  /\ line' = LineString(routeCoordinates[1])
  /\ totalDistance' = TurfLength(line')
  /\ distancePerInterval' =
       DistancePerInterval(averageSpeedKmh, intervalMinutes)
  /\ IF totalDistance' <= distancePerInterval'
     THEN /\ pc' = "done"
          /\ returnedAt' = "short"
          /\ result' = ShortRoute(routeCoordinates[1], totalDistance',
                                  averageSpeedKmh, departureTimeMinutes)
          /\ UNCHANGED <<segments, currentDistance, segmentIndex>>
     ELSE /\ pc' = "loop"
          /\ segments' =
               Append(segments,
                      StartSegment(routeCoordinates[1], departureTimeMinutes))
          /\ currentDistance' = 0
          /\ segmentIndex' = 1
          /\ UNCHANGED <<result, returnedAt>>
  /\ UNCHANGED inputs
  /\ UNCHANGED <<repeated, travel, routing, further>>

\* mutant of Measure: the points swapped to [lng, lat] in the list passed
MeasureSwappingInPlace ==
  /\ pc = "measure"
  /\ ~(geometryFault \/ LineStringThrows(routeCoordinates[1]))
  /\ line' = LineString(routeCoordinates[1])
  /\ routeCoordinates' = Some(line')
  /\ totalDistance' = TurfLength(line')
  /\ distancePerInterval' =
       DistancePerInterval(averageSpeedKmh, intervalMinutes)
  /\ IF totalDistance' <= distancePerInterval'
     THEN /\ pc' = "done"
          /\ returnedAt' = "short"
          /\ result' = ShortRoute(routeCoordinates[1], totalDistance',
                                  averageSpeedKmh, departureTimeMinutes)
          /\ UNCHANGED <<segments, currentDistance, segmentIndex>>
     ELSE /\ pc' = "loop"
          /\ segments' =
               <<StartSegment(routeCoordinates[1], departureTimeMinutes)>>
          /\ currentDistance' = 0
          /\ segmentIndex' = 1
          /\ UNCHANGED <<result, returnedAt>>
  /\ UNCHANGED <<passed, intervalMinutes, averageSpeedKmh,
                 departureTimeMinutes, alongFaults, geometryFault>>
  /\ UNCHANGED <<repeated, travel, routing, further>>

\* line, totalDistance, distancePerInterval; the short-route return, or the
\* starting point pushed and the loop entered
Measure ==
  /\ pc = "measure"
  /\ ~(geometryFault \/ LineStringThrows(routeCoordinates[1]))
  /\ line' = LineString(routeCoordinates[1])
  /\ totalDistance' = TurfLength(line')
  /\ distancePerInterval' =
       DistancePerInterval(averageSpeedKmh, intervalMinutes)
  /\ IF totalDistance' <= distancePerInterval'
     THEN /\ pc' = "done"
          /\ returnedAt' = "short"
          /\ result' = ShortRoute(routeCoordinates[1], totalDistance',
                                  averageSpeedKmh, departureTimeMinutes)
          /\ UNCHANGED <<segments, currentDistance, segmentIndex>>
     ELSE /\ pc' = "loop"
          /\ segments' =
               <<StartSegment(routeCoordinates[1], departureTimeMinutes)>>
          /\ currentDistance' = 0
          /\ segmentIndex' = 1
          /\ UNCHANGED <<result, returnedAt>>
  /\ UNCHANGED inputs
  /\ UNCHANGED <<repeated, travel, routing, further>>

\* A loop whose step is positive is followed to its end.  A loop whose step
\* is zero or negative never ends (DoomedForever); it is followed for
\* MaxSpin iterations.
Followed ==
  \/ distancePerInterval > 0
  \/ /\ Len(segments) <= MaxSpin
     /\ distancePerInterval < 0 => currentDistance > MaxSpin * distancePerInterval

\* one iteration of the while loop: the cursor advances, and the point
\* turf.along gives is pushed unless turf.along throws
LoopIteration ==
  /\ pc = "loop"
  /\ LoopCondition(currentDistance, totalDistance, distancePerInterval)
  /\ Followed
  /\ currentDistance' = currentDistance + distancePerInterval
  /\ \E point \in AlongOutcomes(line, currentDistance', alongFaults) :
       IF point = None
       THEN /\ pc' = Handler("along")
            /\ UNCHANGED <<segments, segmentIndex>>
       ELSE /\ pc' = "loop"
            /\ segments' =
                 Append(segments,
                        AlongSegment(point[1], currentDistance',
                                     averageSpeedKmh, departureTimeMinutes,
                                     segmentIndex))
            /\ segmentIndex' = segmentIndex + 1
  /\ UNCHANGED <<inputs, line, totalDistance, distancePerInterval, result,
                 returnedAt>>
  /\ UNCHANGED <<repeated, travel, routing, further>>

\* the loop condition fails: the ending point is pushed, segments returned
LoopExit ==
  /\ pc = "loop"
  /\ ~LoopCondition(currentDistance, totalDistance, distancePerInterval)
  /\ segments' =
       Append(segments,
              EndSegment(routeCoordinates[1], totalDistance, averageSpeedKmh,
                         departureTimeMinutes, segmentIndex))
  /\ segmentIndex' = segmentIndex + 1
  /\ result' = segments'
  /\ pc' = "done"
  /\ returnedAt' = "general"
  /\ UNCHANGED <<inputs, line, totalDistance, distancePerInterval,
                 currentDistance>>
  /\ UNCHANGED <<repeated, travel, routing, further>>

\* catch (error): the start and end points, both at distance 0
Fallback ==
  /\ pc = "catch"
  /\ result' = FallbackRoute(routeCoordinates[1], departureTimeMinutes)
  /\ pc' = "done"
  /\ returnedAt' = "fallback"
  /\ UNCHANGED <<inputs, line, totalDistance, distancePerInterval, segments,
                 currentDistance, segmentIndex>>
  /\ UNCHANGED <<repeated, travel, routing, further>>

Next ==
  \/ Guard
  \/ MeasureThrows
  \/ Measure
  \/ LoopIteration
  \/ LoopExit
  \/ Fallback

Spec == Init /\ [][Next]_vars

\* the statements of the call and the function agree on what is returned
StepsAgree ==
  pc = "done" =>
    result = CalculateRouteSegments(routeCoordinates, intervalMinutes,
                                    averageSpeedKmh, departureTimeMinutes,
                                    alongFaults, geometryFault)

\* ------------------------------------------------------- repeated calls
\* calculateRouteSegments called again and again by one page: a call's
\* variables are declared anew by its own statements, so whatever the call
\* before left in them is still there when the next call is entered.

\* the calls of one run
MaxCalls == 3

CallRoutes ==
  { None,
    Some(<<Point(0), Point(10)>>),
    Some(<<Point(0), Point(120)>>),
    Some(<<Point(0), NullPoint>>) }

CallArguments ==
  [intervalMinutes : {None, Some(60)},
   averageSpeedKmh : {Some(80)},
   departureTimeMinutes : {None, Some(45)}]

\* the first call is entered
InitCalls ==
  /\ routeCoordinates \in CallRoutes
  /\ passed \in CallArguments
  /\ intervalMinutes = DefaultParam(passed.intervalMinutes, DefaultInterval)
  /\ averageSpeedKmh = DefaultParam(passed.averageSpeedKmh, DefaultSpeed)
  /\ departureTimeMinutes =
       DefaultParam(passed.departureTimeMinutes, DefaultDeparture)
  /\ alongFaults \in FaultChoices
  /\ geometryFault = FALSE
  /\ pc = "guard"
  /\ line = <<>>
  /\ totalDistance = 0
  /\ distancePerInterval = 0
  /\ segments = <<>>
  /\ currentDistance = 0
  /\ segmentIndex = 0
  /\ result = <<>>
  /\ returnedAt = "none"
  /\ FirstCall
  /\ InitialTravel
  /\ NoRouting
  /\ NothingFurther

\* what the call that has returned was given, and what it returned
Returned ==
  [routeCoordinates |-> routeCoordinates,
   intervalMinutes |-> intervalMinutes,
   averageSpeedKmh |-> averageSpeedKmh,
   departureTimeMinutes |-> departureTimeMinutes,
   result |-> result]

\* the call has returned and the function is called again: the arguments are
\* bound, everything else is as the call before left it
CallAgain ==
  /\ pc = "done"
  /\ calls < MaxCalls
  /\ calls' = calls + 1
  /\ earlier' = Append(earlier, Returned)
  /\ routeCoordinates' \in CallRoutes
  /\ passed' \in CallArguments
  /\ intervalMinutes' = DefaultParam(passed'.intervalMinutes, DefaultInterval)
  /\ averageSpeedKmh' = DefaultParam(passed'.averageSpeedKmh, DefaultSpeed)
  /\ departureTimeMinutes' =
       DefaultParam(passed'.departureTimeMinutes, DefaultDeparture)
  /\ pc' = "guard"
  /\ UNCHANGED <<alongFaults, geometryFault, line, totalDistance,
                 distancePerInterval, segments, currentDistance,
                 segmentIndex, result, returnedAt>>
  /\ UNCHANGED <<travel, routing, further>>

NextCalls ==
  \/ Guard
  \/ MeasureThrows
  \/ Measure
  \/ LoopIteration
  \/ LoopExit
  \/ Fallback
  \/ CallAgain

SpecCalls == InitCalls /\ [][NextCalls]_<<vars, repeated>>

\* ------------------------------------------------------- the travel page
\* TravelContext and the handlers that write it: the route form, the route
\* history and the favorite routes.  calculateRouteSegments is the function
\* above; turf does not fail.

\* the routeHistory documents kept
MaxHistory == 1

\* the coordinates of the routes the routing service answers with
RoutesFound ==
  { <<Point(0), Point(120)>>, <<Point(0), Point(10), Point(111)>> }

\* options of the form's selects
ModesOffered == {"driving-car", "cycling-regular"}

IntervalsOffered == {30, 60}

DeparturesOffered == {0, 30}

\* getAverageSpeed(travelMode)
GetAverageSpeed(mode) ==
  CASE mode \in {"driving-car", "driving"} -> 80
    [] mode \in {"cycling-regular", "cycling"} -> 15
    [] mode \in {"foot-walking", "walking"} -> 5
    [] OTHER -> 80

\* routeData.coordinates.flat()
RECURSIVE Flat(_)
Flat(coords) ==
  IF coords = <<>> THEN <<>> ELSE coords[1] \o Flat(Tail(coords))

\* the range check with its bounds left out
InRangeExclusive(point) ==
  /\ point[1] > -90 /\ point[1] < 90
  /\ Abs(point[2]) < 180 * 111 * UnitsPerKm

\* lat and lng within their ranges; 1 degree of lng is 111 km on the equator
InRange(point) ==
  /\ point[1] >= -90 /\ point[1] <= 90
  /\ Abs(point[2]) <= 180 * 111 * UnitsPerKm

\* the [lat, lng] pairs of a flattened list, those out of range left out
Pairs(flat) ==
  SelectSeq([i \in 1..(Len(flat) \div 2) |-> <<flat[2 * i - 1], flat[2 * i]>>],
            InRange)

\* the saved weather points, those with coordinates out of range left out
WeatherPointInRange(point) == InRange(point.coordinates)

Reconstructed(points) == SelectSeq(points, WeatherPointInRange)

\* the document saveRouteHistory writes
RouteHistoryDocument(mode, coords, points) ==
  [travelMode |-> mode,
   coordinates |-> Flat(coords),
   weatherPoints |->
     [i \in 1..Len(points) |->
        [points[i] EXCEPT !.coordinates = Flat(<<points[i].coordinates>>)]]]

\* handleSubmit, the addresses found and the route answered: the route is
\* stored, its weather points are calculated from the context's values and
\* stored, and the route is saved to the history unless saving fails
HandleSubmit ==
  \E coords \in RoutesFound, saved \in BOOLEAN :
    LET segs == CalculateRouteSegments(Some(coords), updateInterval,
                                       GetAverageSpeed(travelMode),
                                       departureTime, {}, FALSE)
        document == RouteHistoryDocument(travelMode, coords, segs)
    IN  /\ saved => Cardinality(history \cup {document}) <= MaxHistory
        /\ route' = Some(coords)
        /\ weatherPoints' = segs
        /\ history' = IF saved THEN history \cup {document} ELSE history
        /\ UNCHANGED <<travelMode, updateInterval, departureTime>>
        /\ UNCHANGED <<vars, repeated, routing, further>>

\* setTravelMode(e.target.value)
SetTravelMode ==
  \E newTravelMode \in ModesOffered :
    /\ travelMode' = newTravelMode
    /\ UNCHANGED <<route, weatherPoints, updateInterval, departureTime,
                   history>>
    /\ UNCHANGED <<vars, repeated, routing, further>>

\* setUpdateInterval(parseInt(e.target.value)): newInterval || 30
SetUpdateInterval ==
  \E newInterval \in IntervalsOffered :
    /\ updateInterval' = IF newInterval = 0 THEN 30 ELSE newInterval
    /\ UNCHANGED <<route, weatherPoints, travelMode, departureTime, history>>
    /\ UNCHANGED <<vars, repeated, routing, further>>

\* setDepartureTime(parseInt(e.target.value)):
\* Math.max(0, Math.min(newDepartureTime || 0, 4320))
SetDepartureTime ==
  \E newDepartureTime \in DeparturesOffered :
    /\ departureTime' =
         IF newDepartureTime < 0 THEN 0
         ELSE IF newDepartureTime > 4320 THEN 4320 ELSE newDepartureTime
    /\ UNCHANGED <<route, weatherPoints, travelMode, updateInterval, history>>
    /\ UNCHANGED <<vars, repeated, routing, further>>

\* handleLoadHistoryRoute: the saved weather points are stored again where
\* there are any, and calculated only where there are none
HandleLoadHistoryRoute ==
  \E historyRoute \in history :
    LET reconstructedCoordinates == Pairs(historyRoute.coordinates)
        reconstructedWeatherPoints == Reconstructed(historyRoute.weatherPoints)
    IN  /\ travelMode' = historyRoute.travelMode
        /\ route' = Some(reconstructedCoordinates)
        /\ weatherPoints' =
             IF Len(reconstructedWeatherPoints) > 0
             THEN reconstructedWeatherPoints
             ELSE IF Len(reconstructedCoordinates) > 0
             THEN CalculateRouteSegments(
                    Some(reconstructedCoordinates), updateInterval,
                    GetAverageSpeed(historyRoute.travelMode), departureTime,
                    {}, FALSE)
             ELSE <<>>
        /\ UNCHANGED <<updateInterval, departureTime, history>>
        /\ UNCHANGED <<vars, repeated, routing, further>>

\* the favoriteRoutes documents kept
MaxFavorites == 2

\* route.distance and route.duration of the routing service's answer
RouteDistance(coords) == TurfLength(LineString(coords))

RouteDuration(coords) == TurfLength(LineString(coords)) \div DefaultSpeed

\* what handleSaveAsFavorite passes to the mutation; origin and destination
\* stand as the route's ends
FavoriteData(coords, mode) ==
  [origin |-> coords[1], destination |-> coords[Len(coords)],
   travelMode |-> mode, coordinates |-> Some(coords),
   distance |-> Some(RouteDistance(coords)),
   duration |-> Some(RouteDuration(coords))]

\* routingService.saveAsFavorite: the document written, as
\* getFavoriteRoutes reads it; a field the document lacks reads undefined
SaveAsFavorite(routeData) ==
  [origin |-> routeData.origin, destination |-> routeData.destination,
   travelMode |-> routeData.travelMode, coordinates |-> None,
   distance |-> None, duration |-> None]

\* handleSaveAsFavorite with a route on the page, the addDoc succeeding
HandleSaveAsFavorite ==
  /\ route # None
  /\ Cardinality(favorites) < MaxFavorites
  /\ favorites' = favorites \cup {SaveAsFavorite(FavoriteData(route[1], travelMode))}
  /\ UNCHANGED lastLoaded
  /\ UNCHANGED travel
  /\ UNCHANGED <<vars, repeated, routing, page, store, weatherRequest, weatherAtTime, roundTrip>>

\* handleLoadFavorite of a favorite of the list: the route and the weather
\* points are set only if the favorite has coordinates, and
\* calculateRouteSegments is called without a departure time
HandleLoadFavorite ==
  \E favorite \in favorites :
    /\ lastLoaded' = Some(favorite)
    /\ travelMode' = favorite.travelMode
    /\ IF favorite.coordinates # None
         THEN /\ route' = favorite.coordinates
              /\ weatherPoints' =
                   CalculateRouteSegments(favorite.coordinates, updateInterval,
                                          GetAverageSpeed(favorite.travelMode),
                                          DefaultParam(None, DefaultDeparture),
                                          {}, FALSE)
         ELSE UNCHANGED <<route, weatherPoints>>
    /\ UNCHANGED <<updateInterval, departureTime, history, favorites>>
    /\ UNCHANGED <<vars, repeated, routing, page, store, weatherRequest, weatherAtTime, roundTrip>>

\* clearRoute
ClearRoute ==
  /\ route' = None
  /\ weatherPoints' = <<>>
  /\ UNCHANGED <<travelMode, updateInterval, departureTime, history>>
  /\ UNCHANGED <<vars, repeated, routing, further>>

InitTravel ==
  NoCall /\ FirstCall /\ InitialTravel /\ NoRouting /\ NothingFurther

NextTravel ==
  \/ HandleSubmit
  \/ SetTravelMode
  \/ SetUpdateInterval
  \/ SetDepartureTime
  \/ HandleLoadHistoryRoute
  \/ HandleSaveAsFavorite
  \/ HandleLoadFavorite
  \/ ClearRoute

SpecTravel == InitTravel /\ [][NextTravel]_<<travel, favoriteRoutes>>

\* ------------------------------------------------------------- getRoute
\* routingService.getRoute, one call of it, in each of the two definitions
\* of routingService the repository holds: the one that also keeps the route
\* history and validates what it is given ("history"), and the one that only
\* routes ("plain").

Definitions == {"history", "plain"}

\* process.env.REACT_APP_ORS_API_KEY || "YOUR_ORS_API_KEY"
KeyChoices == {"YOUR_ORS_API_KEY", "a key"}

\* start and end: null, or a { lat, lng } in degrees
StartChoices ==
  {None, Some([lat |-> 48, lng |-> 2]), Some([lat |-> 51, lng |-> 0])}

EndChoices == {None, Some([lat |-> 52, lng |-> 13])}

ProfileChoices == {None, Some("cycling"), Some("hiking")}

\* what a request meets: a route, a response without one, or an error
AnswerChoices == {"route", "malformed", "error"}

\* PROFILE_MAPPING[profile] || "driving-car"
NormalizedProfile(p) ==
  CASE p \in {"driving-car", "driving"} -> "driving-car"
    [] p \in {"cycling-regular", "cycling"} -> "cycling-regular"
    [] p \in {"foot-walking", "walking", "foot"} -> "foot-walking"
    [] OTHER -> "driving-car"

\* ORS_API_KEY && ORS_API_KEY !== "YOUR_ORS_API_KEY"
HasOrsKey == orsApiKey # "" /\ orsApiKey # "YOUR_ORS_API_KEY"

\* validateRouteCoordinates, for a point without lon: start.lng || start.lon
\* is undefined when lng is 0, and undefined is no valid number
ValidCoordinates(point) ==
  /\ point # None
  /\ point[1].lng # 0
  /\ point[1].lat >= -90 /\ point[1].lat <= 90
  /\ point[1].lng >= -180 /\ point[1].lng <= 180

\* !x of JavaScript, as a value that may be compared with undefined
JsNot(x) == IF x = "undefined" THEN "true" ELSE "false"

\* !route.geometry || !route.distance !== undefined
\*                 || !route.duration !== undefined, of routes[0]
MissingRequiredFields(found) ==
  \/ JsNot(found.geometry) = "true"
  \/ JsNot(found.distance) # "undefined"
  \/ JsNot(found.duration) # "undefined"

\* routes[0] of an OSRM response that has a route
OsrmRoute ==
  [geometry |-> "object", distance |-> "number", duration |-> "number"]

\* whether getORSRoute returns, given the answer to its request
OrsReturns(ans) == ans = "route"

\* whether getOSRMRoute of the definition with history returns
OsrmReturns(ans) == ans = "route" /\ ~MissingRequiredFields(OsrmRoute)

\* whether getOSRMRoute of the plain definition returns
PlainOsrmReturns(ans) == ans = "route"

Request(provider, prof) == [provider |-> provider, profile |-> prof]

\* getRoute is called
InitRouting ==
  /\ loaded \in Definitions
  /\ orsApiKey \in KeyChoices
  /\ start \in StartChoices
  /\ end \in EndChoices
  /\ profile \in ProfileChoices
  /\ orsAnswer \in AnswerChoices
  /\ osrmAnswer \in AnswerChoices
  /\ at = IF loaded = "history" THEN "validate" ELSE "provider"
  /\ requests = <<>>
  /\ answer = None
  /\ NoCall
  /\ FirstCall
  /\ InitialTravel
  /\ NothingFurther

\* validateRouteCoordinates(start, end, operation)
Validate ==
  /\ loaded = "history"
  /\ at = "validate"
  /\ at' = IF ValidCoordinates(start) /\ ValidCoordinates(end)
           THEN "provider" ELSE "thrown"
  /\ UNCHANGED <<loaded, orsApiKey, start, end, profile, orsAnswer,
                 osrmAnswer, requests, answer>>
  /\ UNCHANGED <<vars, repeated, travel, further>>

\* if (ORS_API_KEY && ORS_API_KEY !== "YOUR_ORS_API_KEY")
ChooseProvider ==
  /\ loaded = "history"
  /\ at = "provider"
  /\ at' = IF HasOrsKey THEN "ors" ELSE "osrm"
  /\ UNCHANGED <<loaded, orsApiKey, start, end, profile, orsAnswer,
                 osrmAnswer, requests, answer>>
  /\ UNCHANGED <<vars, repeated, travel, further>>

\* await this.getORSRoute(...): its route is returned, or its error is
\* caught and logged and OSRM is asked
RequestORS ==
  /\ loaded = "history"
  /\ at = "ors"
  /\ requests' =
       Append(requests,
              Request("ORS", NormalizedProfile(DefaultParam(profile,
                                                            "driving-car"))))
  /\ IF OrsReturns(orsAnswer)
     THEN at' = "returned" /\ answer' = Some("ORS")
     ELSE at' = "osrm" /\ UNCHANGED answer
  /\ UNCHANGED <<loaded, orsApiKey, start, end, profile, orsAnswer,
                 osrmAnswer>>
  /\ UNCHANGED <<vars, repeated, travel, further>>

\* await this.getOSRMRoute(start, end): its route is returned, or its error
\* is logged and thrown again
RequestOSRM ==
  /\ loaded = "history"
  /\ at = "osrm"
  /\ requests' = Append(requests, Request("OSRM", "driving"))
  /\ IF OsrmReturns(osrmAnswer)
     THEN at' = "returned" /\ answer' = Some("OSRM")
     ELSE at' = "thrown" /\ UNCHANGED answer
  /\ UNCHANGED <<loaded, orsApiKey, start, end, profile, orsAnswer,
                 osrmAnswer>>
  /\ UNCHANGED <<vars, repeated, travel, further>>

\* the plain definition: if (ORS_API_KEY && ...) return await getORSRoute
PlainChooseProvider ==
  /\ loaded = "plain"
  /\ at = "provider"
  /\ at' = IF HasOrsKey THEN "ors" ELSE "osrm"
  /\ UNCHANGED <<loaded, orsApiKey, start, end, profile, orsAnswer,
                 osrmAnswer, requests, answer>>
  /\ UNCHANGED <<vars, repeated, travel, further>>

\* the plain definition's getORSRoute: start.lng of null is a TypeError
\* before any request; an error of the request is thrown by getRoute
PlainRequestORS ==
  /\ loaded = "plain"
  /\ at = "ors"
  /\ IF start = None \/ end = None
     THEN at' = "thrown" /\ UNCHANGED <<requests, answer>>
     ELSE /\ requests' =
               Append(requests,
                      Request("ORS",
                              NormalizedProfile(DefaultParam(profile,
                                                             "driving-car"))))
          /\ IF OrsReturns(orsAnswer)
             THEN at' = "returned" /\ answer' = Some("ORS")
             ELSE at' = "thrown" /\ UNCHANGED answer
  /\ UNCHANGED <<loaded, orsApiKey, start, end, profile, orsAnswer,
                 osrmAnswer>>
  /\ UNCHANGED <<vars, repeated, travel, further>>

\* the plain definition's getOSRMRoute
PlainRequestOSRM ==
  /\ loaded = "plain"
  /\ at = "osrm"
  /\ IF start = None \/ end = None
     THEN at' = "thrown" /\ UNCHANGED <<requests, answer>>
     ELSE /\ requests' = Append(requests, Request("OSRM", "driving"))
          /\ IF PlainOsrmReturns(osrmAnswer)
             THEN at' = "returned" /\ answer' = Some("OSRM")
             ELSE at' = "thrown" /\ UNCHANGED answer
  /\ UNCHANGED <<loaded, orsApiKey, start, end, profile, orsAnswer,
                 osrmAnswer>>
  /\ UNCHANGED <<vars, repeated, travel, further>>

NextRouting ==
  \/ Validate
  \/ ChooseProvider
  \/ RequestORS
  \/ RequestOSRM
  \/ PlainChooseProvider
  \/ PlainRequestORS
  \/ PlainRequestOSRM

SpecRouting == InitRouting /\ [][NextRouting]_routing

\* ------------------------------------------------------------ the submit
\* handleSubmit of the route form followed from await to await, and the
\* weather queries the weather panel's cards make (useWeather) for the
\* waypoints stored.  What runs between two awaits runs without anything
\* else in between.  The form's selects are left alone.

\* Math.round(point?.estimatedTime || 0)
EstimatedMinutes(point) ==
  LET t == point.estimatedTime
  IN  IF t.kind # "num" \/ t.n = 0 THEN 0 ELSE (2 * t.n + t.d) \div (2 * t.d)

\* lat != null && lon != null && !isNaN(lat) && !isNaN(lon)
CoordinatesValid(point) == point.coordinates # NullPoint

\* ["weather", lat, lon, minutesFromNow]
QueryKey(point) ==
  <<point.coordinates[1], point.coordinates[2], EstimatedMinutes(point)>>

\* the submit button is pressed: without both addresses an error is set and
\* nothing else happens; with them isLoading is set and geocoding begins
SubmitStart ==
  /\ stage = "idle"
  /\ ~isLoading
  /\ \E filled \in BOOLEAN :
       IF filled
       THEN /\ isLoading' = TRUE
            /\ error' = None
            /\ stage' = "geocoding"
       ELSE /\ error' = Some("Please enter both origin and destination")
            /\ UNCHANGED <<isLoading, stage>>
  /\ UNCHANGED <<lookups, weather>>
  /\ UNCHANGED <<vars, repeated, travel, routing, store, weatherRequest, weatherAtTime, favoriteRoutes, roundTrip>>

\* catch (error) { setError(...) } finally { setLoading(false) }
SubmitFails(message) ==
  /\ error' = Some(message)
  /\ isLoading' = FALSE
  /\ stage' = "idle"

\* both geocode requests settle
GeocodeSettles ==
  /\ stage = "geocoding"
  /\ \E geocoded \in {"found", "none", "error"} :
       CASE geocoded = "found" ->
              /\ stage' = "routing"
              /\ UNCHANGED <<isLoading, error>>
         [] geocoded = "none" ->
              SubmitFails("Could not find one or both locations")
         [] OTHER -> SubmitFails("Network Error")
  /\ UNCHANGED <<lookups, weather>>
  /\ UNCHANGED <<vars, repeated, travel, routing, store, weatherRequest, weatherAtTime, favoriteRoutes, roundTrip>>

\* mutant of RouteSettles: the weather points are stored as they are pushed,
\* the starting point first
RouteSettlesStoringStart ==
  /\ stage = "routing"
  /\ \/ \E coords \in RoutesFound :
          /\ route' = Some(coords)
          /\ weatherPoints' = <<StartSegment(coords, departureTime)>>
          /\ stage' = "saving"
          /\ UNCHANGED <<isLoading, error>>
     \/ /\ SubmitFails("Network Error")
        /\ UNCHANGED <<route, weatherPoints>>
  /\ UNCHANGED <<travelMode, updateInterval, departureTime, history>>
  /\ UNCHANGED <<lookups, weather>>
  /\ UNCHANGED <<vars, repeated, routing, store, weatherRequest, weatherAtTime, favoriteRoutes, roundTrip>>

\* the route request settles: with a route, the route is stored, its weather
\* points are calculated and stored, and the saving begins
RouteSettles ==
  /\ stage = "routing"
  /\ \/ \E coords \in RoutesFound :
          /\ route' = Some(coords)
          /\ weatherPoints' =
               CalculateRouteSegments(Some(coords), updateInterval,
                                      GetAverageSpeed(travelMode),
                                      departureTime, {}, FALSE)
          /\ stage' = "saving"
          /\ UNCHANGED <<isLoading, error>>
     \/ /\ SubmitFails("Network Error")
        /\ UNCHANGED <<route, weatherPoints>>
  /\ UNCHANGED <<travelMode, updateInterval, departureTime, history>>
  /\ UNCHANGED <<lookups, weather>>
  /\ UNCHANGED <<vars, repeated, routing, store, weatherRequest, weatherAtTime, favoriteRoutes, roundTrip>>

\* mutant of SaveSettles: a failed save handled by the outer catch
SaveSettlesReporting ==
  /\ stage = "saving"
  /\ \E saved \in BOOLEAN :
       LET document == RouteHistoryDocument(travelMode, route[1],
                                            weatherPoints)
       IN  /\ saved => Cardinality(history \cup {document}) <= MaxHistory
           /\ history' = IF saved THEN history \cup {document} ELSE history
           /\ error' = IF saved THEN error
                       ELSE Some("Failed to plan route. Please try again.")
  /\ isLoading' = FALSE
  /\ stage' = "idle"
  /\ UNCHANGED <<route, weatherPoints, travelMode, updateInterval,
                 departureTime>>
  /\ UNCHANGED <<lookups, weather>>
  /\ UNCHANGED <<vars, repeated, routing, store, weatherRequest, weatherAtTime, favoriteRoutes, roundTrip>>

\* saveRouteHistory settles: a failure is logged and nothing more; finally
\* setLoading(false)
SaveSettles ==
  /\ stage = "saving"
  /\ \E saved \in BOOLEAN :
       LET document == RouteHistoryDocument(travelMode, route[1],
                                            weatherPoints)
       IN  /\ saved => Cardinality(history \cup {document}) <= MaxHistory
           /\ history' = IF saved THEN history \cup {document} ELSE history
  /\ isLoading' = FALSE
  /\ stage' = "idle"
  /\ UNCHANGED error
  /\ UNCHANGED <<route, weatherPoints, travelMode, updateInterval,
                 departureTime>>
  /\ UNCHANGED <<lookups, weather>>
  /\ UNCHANGED <<vars, repeated, routing, store, weatherRequest, weatherAtTime, favoriteRoutes, roundTrip>>

\* a card of the weather panel, rendered for a stored waypoint, starts its
\* query unless the query is in flight or has fresh data
LookupStarts ==
  /\ \E i \in 1..Len(weatherPoints) :
       /\ CoordinatesValid(weatherPoints[i])
       /\ QueryKey(weatherPoints[i]) \notin lookups \cup weather
       /\ lookups' = lookups \cup {QueryKey(weatherPoints[i])}
  /\ UNCHANGED <<stage, isLoading, error, weather>>
  /\ UNCHANGED <<vars, repeated, travel, routing, store, weatherRequest, weatherAtTime, favoriteRoutes, roundTrip>>

\* mutant of LookupSettles: the waypoint looked up is moved to the front
LookupSettlesReordering ==
  /\ \E key \in lookups, found \in BOOLEAN :
       /\ lookups' = lookups \ {key}
       /\ weather' = IF found THEN weather \cup {key} ELSE weather
       /\ weatherPoints' =
            SelectSeq(weatherPoints, LAMBDA w : QueryKey(w) = key)
              \o SelectSeq(weatherPoints, LAMBDA w : QueryKey(w) # key)
  /\ UNCHANGED <<stage, isLoading, error>>
  /\ UNCHANGED <<route, travelMode, updateInterval, departureTime, history>>
  /\ UNCHANGED <<vars, repeated, routing, store, weatherRequest, weatherAtTime, favoriteRoutes, roundTrip>>

\* a query settles, in any order: its data goes to the query cache
LookupSettles ==
  /\ \E key \in lookups, found \in BOOLEAN :
       /\ lookups' = lookups \ {key}
       /\ weather' = IF found THEN weather \cup {key} ELSE weather
  /\ UNCHANGED <<stage, isLoading, error>>
  /\ UNCHANGED <<vars, repeated, travel, routing, store, weatherRequest, weatherAtTime, favoriteRoutes, roundTrip>>

InitSubmit ==
  NoCall /\ FirstCall /\ InitialTravel /\ NoRouting /\ NothingFurther

NextSubmit ==
  \/ SubmitStart
  \/ GeocodeSettles
  \/ RouteSettles
  \/ SaveSettles
  \/ LookupStarts
  \/ LookupSettles

SpecSubmit == InitSubmit /\ [][NextSubmit]_<<travel, page>>

\* every request of a submit settles
FairSubmit ==
  /\ SpecSubmit
  /\ WF_<<travel, page>>(GeocodeSettles)
  /\ WF_<<travel, page>>(RouteSettles)
  /\ WF_<<travel, page>>(SaveSettles)

\* ------------------------------------------------- the route history
\* routingService.saveRouteHistory and cleanupOldRoutes, each call followed
\* from await to await; a page makes its calls one after another, the
\* calls of two pages run side by side.

MaxSaves == 2

KeptRoutes == 10

Users == {"u1", "u2"}

Pages == {"p1", "p2"}

\* the timestamps a page's clock gives, against those stored at first:
\* before all of them, that of the oldest, after all of them
NowChoices == {0, 1, 20}

Document(id, userId, timestamp) ==
  [id |-> id, userId |-> userId, timestamp |-> timestamp]

\* the collection after nine saves of u1 and ten of u2
StoredAtFirst ==
  {Document(100 + t, "u1", t) : t \in 1..(KeptRoutes - 1)}
    \cup {Document(200 + t, "u2", t) : t \in 1..KeptRoutes}

NotCalled ==
  [stage |-> "idle", userId |-> "", timestamp |-> 0,
   routesToDelete |-> {}, cleanupFailed |-> FALSE]

\* orderBy('timestamp', 'desc'): equal timestamps in the order of the ids
Before(d, e) ==
  \/ d.timestamp > e.timestamp
  \/ d.timestamp = e.timestamp /\ d.id > e.id

\* where('userId', '==', userId)
Query(userId) == {d \in documents : d.userId = userId}

\* the slice of the same query ordered by orderBy('timestamp', 'asc')
RoutesToDeleteAscending(allRoutes) ==
  IF Cardinality(allRoutes) > KeptRoutes
    THEN {d \in allRoutes :
            Cardinality({e \in allRoutes : Before(d, e)}) >= KeptRoutes}
    ELSE {}

\* allRoutes.slice(10), when allRoutes.length > 10
RoutesToDelete(allRoutes) ==
  IF Cardinality(allRoutes) > KeptRoutes
    THEN {d \in allRoutes :
            Cardinality({e \in allRoutes : Before(e, d)}) >= KeptRoutes}
    ELSE {}

\* addDoc gives the document a random id: here below or above all others
NewIds ==
  LET ids == {d.id : d \in everStored}
      Least == CHOOSE i \in ids : \A j \in ids : i <= j
      Most == CHOOSE i \in ids : \A j \in ids : i >= j
  IN {Least - 1, Most + 1}

\* the call up to its first await: the checks, the document with its
\* timestamp
SaveStart(c) ==
  /\ saves[c].stage \in {"idle", "returned", "thrown"}
  /\ saveCalls < MaxSaves
  /\ saveCalls' = saveCalls + 1
  /\ \E userId \in Users \cup {""}, hasFields \in BOOLEAN, now \in NowChoices :
       saves' = [saves EXCEPT ![c] =
         IF userId = "" \/ ~hasFields
           THEN [@ EXCEPT !.stage = "thrown"]
           ELSE [@ EXCEPT !.stage = "adding", !.userId = userId,
                          !.timestamp = now]]
  /\ UNCHANGED <<documents, everStored, deletedBy>>
  /\ UNCHANGED <<vars, repeated, travel, routing, page, weatherRequest, weatherAtTime, favoriteRoutes, roundTrip>>

\* addDoc settles
AddSettles(c) ==
  /\ saves[c].stage = "adding"
  /\ \/ \E id \in NewIds :
          LET routeHistory == Document(id, saves[c].userId, saves[c].timestamp)
          IN /\ documents' = documents \cup {routeHistory}
             /\ everStored' = everStored \cup {routeHistory}
             /\ saves' = [saves EXCEPT ![c].stage = "querying"]
     \/ /\ saves' = [saves EXCEPT ![c].stage = "thrown"]
        /\ UNCHANGED <<documents, everStored>>
  /\ UNCHANGED <<deletedBy, saveCalls>>
  /\ UNCHANGED <<vars, repeated, travel, routing, page, weatherRequest, weatherAtTime, favoriteRoutes, roundTrip>>

\* the query of cleanupOldRoutes settles; a failure is logged, not thrown
QuerySettles(c) ==
  /\ saves[c].stage = "querying"
  /\ \/ LET routesToDelete == RoutesToDelete(Query(saves[c].userId))
        IN saves' = [saves EXCEPT ![c] =
             [@ EXCEPT !.stage = IF routesToDelete = {} THEN "returned"
                                 ELSE "deleting",
                       !.routesToDelete = routesToDelete]]
     \/ saves' = [saves EXCEPT ![c] =
          [@ EXCEPT !.stage = "returned", !.cleanupFailed = TRUE]]
  /\ UNCHANGED <<documents, everStored, deletedBy, saveCalls>>
  /\ UNCHANGED <<vars, repeated, travel, routing, page, weatherRequest, weatherAtTime, favoriteRoutes, roundTrip>>

\* one deleteDoc of Promise.allSettled settles, in any order; the call
\* returns after the last
DeleteSettles(c) ==
  /\ saves[c].stage = "deleting"
  /\ \E routeDoc \in saves[c].routesToDelete, success \in BOOLEAN :
       LET rest == saves[c].routesToDelete \ {routeDoc}
       IN /\ documents' = IF success THEN documents \ {routeDoc} ELSE documents
          /\ deletedBy' = IF success /\ routeDoc \in documents
                            THEN deletedBy \cup {<<routeDoc, saves[c].userId>>}
                            ELSE deletedBy
          /\ saves' = [saves EXCEPT ![c] =
               [@ EXCEPT !.stage = IF rest = {} THEN "returned" ELSE "deleting",
                         !.routesToDelete = rest,
                         !.cleanupFailed = @ \/ ~success]]
  /\ UNCHANGED <<everStored, saveCalls>>
  /\ UNCHANGED <<vars, repeated, travel, routing, page, weatherRequest, weatherAtTime, favoriteRoutes, roundTrip>>

InitStore ==
  /\ NoCall /\ FirstCall /\ InitialTravel /\ NoRouting /\ NoSubmit
  /\ NoWeatherRequest /\ NoWeatherAtTime /\ NoFavorites /\ NoRoundTrip
  /\ documents = StoredAtFirst
  /\ everStored = StoredAtFirst
  /\ deletedBy = {}
  /\ saves = [c \in Pages |-> NotCalled]
  /\ saveCalls = 0

NextStore ==
  \E c \in Pages :
    \/ SaveStart(c)
    \/ AddSettles(c)
    \/ QuerySettles(c)
    \/ DeleteSettles(c)

SpecStore == InitStore /\ [][NextStore]_store

\* ---------------------------------------------- the weather requests
\* makeWeatherRequest, from await to await.

DefaultMaxRetries == 2

\* the callers of the module leave maxRetries out
RetryChoices == {None, Some(0), Some(1), Some(3)}

\* what axios.get settles with: a response of status 2xx, or an error with
\* its code and the status of its response (0: no response)
Response(status) == [ok |-> TRUE, code |-> "", status |-> status]

AxiosError(code, status) == [ok |-> FALSE, code |-> code, status |-> status]

Settlements ==
  {Response(200)}
    \cup {AxiosError(code, 0) :
            code \in {"ECONNABORTED", "ENOTFOUND", "ECONNRESET", "ERR_NETWORK"}}
    \cup {AxiosError("ERR_BAD_RESPONSE", status) : status \in {500, 503, 599}}
    \cup {AxiosError("ERR_BAD_REQUEST", status) : status \in {401, 404, 429, 499}}

\* the condition with every status from 400 on retried
ShouldRetryClientErrors(n, retries, err) ==
  /\ n <= retries
  /\ \/ err.code = "ECONNABORTED"
     \/ err.code = "ENOTFOUND"
     \/ err.code = "ECONNRESET"
     \/ err.status >= 400 /\ err.status < 600

\* shouldRetry; a missing response has no status, and undefined compares
\* false with every number
ShouldRetry(n, retries, err) ==
  /\ n <= retries
  /\ \/ err.code = "ECONNABORTED"
     \/ err.code = "ENOTFOUND"
     \/ err.code = "ECONNRESET"
     \/ err.status >= 500 /\ err.status < 600
     \/ err.status = 429

\* the call: the default of maxRetries, the first test of the loop
RequestStart ==
  /\ fetching = "idle"
  /\ \E retries \in RetryChoices :
       /\ maxRetries' = Some(DefaultParam(retries, DefaultMaxRetries))
       /\ attempt' = 1
       /\ IF 1 <= DefaultParam(retries, DefaultMaxRetries) + 1
            THEN fetching' = "get" /\ UNCHANGED outcome
            ELSE fetching' = "thrown" /\ outcome' = lastError
  /\ UNCHANGED <<lastError, sent>>
  /\ UNCHANGED <<vars, repeated, travel, routing, page, store, weatherAtTime, favoriteRoutes, roundTrip>>

\* axios.get settles: the response is returned, or the catch block decides
GetSettles ==
  /\ fetching = "get"
  /\ \E settled \in Settlements :
       /\ sent' = Append(sent, settled)
       /\ IF settled.ok
            THEN /\ fetching' = "returned"
                 /\ outcome' = Some(settled)
                 /\ UNCHANGED lastError
            ELSE /\ lastError' = Some(settled)
                 /\ IF ShouldRetry(attempt, maxRetries[1], settled)
                      THEN fetching' = "delay" /\ UNCHANGED outcome
                      ELSE fetching' = "thrown" /\ outcome' = Some(settled)
  /\ UNCHANGED <<maxRetries, attempt>>
  /\ UNCHANGED <<vars, repeated, travel, routing, page, store, weatherAtTime, favoriteRoutes, roundTrip>>

\* the delay ends: continue, attempt++, the test of the loop
DelayEnds ==
  /\ fetching = "delay"
  /\ attempt' = attempt + 1
  /\ IF attempt + 1 <= maxRetries[1] + 1
       THEN fetching' = "get" /\ UNCHANGED outcome
       ELSE fetching' = "thrown" /\ outcome' = lastError
  /\ UNCHANGED <<maxRetries, lastError, sent>>
  /\ UNCHANGED <<vars, repeated, travel, routing, page, store, weatherAtTime, favoriteRoutes, roundTrip>>

InitWeatherRequest ==
  /\ NoCall /\ FirstCall /\ InitialTravel /\ NoRouting /\ NoSubmit /\ NoStore
  /\ NoWeatherRequest /\ NoWeatherAtTime /\ NoFavorites /\ NoRoundTrip

NextWeatherRequest ==
  \/ RequestStart
  \/ GetSettles
  \/ DelayEnds

SpecWeatherRequest ==
  InitWeatherRequest /\ [][NextWeatherRequest]_weatherRequest

\* --------------------------------------------- the weather at a time
\* weatherService.getWeatherAtTime, from await to await.  Times are minutes
\* from Date.now().

ImmediateMinutes == 15

\* a JavaScript value passed as minutesFromNow: its typeof, and the number
\* it converts to
JsValue(type, kind, n) == [type |-> type, kind |-> kind, n |-> n]

MinutesChoices ==
  {JsValue("number", "num", n) : n \in {-5, 0, 10, 15, 16, 200, 300}}
    \cup {JsValue("number", "nan", 0), JsValue("number", "inf", 1),
          JsValue("undefined", "nan", 0), JsValue("string", "num", 30)}

\* typeof minutesFromNow !== 'number' || isNaN(minutesFromNow) ||
\* minutesFromNow < 0
InvalidMinutes(m) ==
  \/ m.type # "number"
  \/ m.kind = "nan"
  \/ m.kind = "num" /\ m.n < 0

\* minutesFromNow <= 15
Immediate(m) == m.kind = "num" /\ m.n <= ImmediateMinutes

\* new Date(Date.now() + minutesFromNow * 60 * 1000).toISOString() throws
\* a RangeError when the time value is not finite
InvalidTime(m) == m.kind # "num"

\* the list of a forecast response: the dt of each entry, 0 for none
ForecastChoices ==
  {<<>>, <<0>>, <<180>>, <<180, 360>>, <<360, 180>>, <<0, 360>>, <<120, 280>>}

TimeDifference(a, b) == IF a >= b THEN a - b ELSE b - a

\* the entry with the smallest Math.abs(targetTime - forecastTime), the
\* first of equals; 0 when no entry has a dt
ClosestForecast(list, target) ==
  LET dated == {i \in 1..Len(list) : list[i] # 0}
  IN IF dated = {} THEN 0
     ELSE CHOOSE i \in dated :
            \A j \in dated :
              \/ TimeDifference(list[i], target) < TimeDifference(list[j], target)
              \/ TimeDifference(list[i], target) = TimeDifference(list[j], target) /\ i <= j

\* getCurrentWeather: it validates the key and the coordinates itself, then
\* its request succeeds or fails
CurrentWeatherOutcomes ==
  IF apiKeyValid /\ coordinatesOk THEN {"data", "error"} ELSE {"error"}

\* the object returned; a field left out is undefined: FALSE, None
CurrentResult(m, fallback, originalError) ==
  [source |-> "current", isForecasted |-> FALSE, minutesFromNow |-> m,
   fallbackUsed |-> fallback, originalError |-> originalError, dt |-> 0]

ForecastResult(m, dt) ==
  [source |-> "forecast", isForecasted |-> TRUE, minutesFromNow |-> m,
   fallbackUsed |-> FALSE, originalError |-> None, dt |-> dt]

\* the catch block up to its await: the error context, whose toISOString
\* may throw out of the function
Caught(m, err) ==
  /\ caught' = Some(err)
  /\ IF InvalidTime(m)
       THEN awaited' = "thrown" /\ thrown' = Some("RangeError")
       ELSE awaited' = "fallback" /\ UNCHANGED thrown

\* the call up to its first await
AtTimeStart ==
  /\ awaited = "idle"
  /\ \E key \in BOOLEAN, coords \in BOOLEAN, m \in MinutesChoices :
       /\ apiKeyValid' = key
       /\ coordinatesOk' = coords
       /\ minutesFromNow' = m
       /\ CASE ~key -> Caught(m, "API key is not configured")
              [] key /\ ~coords -> Caught(m, "Invalid coordinates")
              [] key /\ coords /\ InvalidMinutes(m) ->
                   Caught(m, "Invalid minutesFromNow value")
              [] OTHER ->
                   IF Immediate(m)
                     THEN awaited' = "current" /\ UNCHANGED <<caught, thrown>>
                     ELSE IF InvalidTime(m)
                       THEN Caught(m, "Invalid time value")
                       ELSE awaited' = "forecast" /\ UNCHANGED <<caught, thrown>>
  /\ UNCHANGED <<currentCalls, returned>>
  /\ UNCHANGED <<vars, repeated, travel, routing, page, store, weatherRequest, favoriteRoutes, roundTrip>>

\* getCurrentWeather of the immediate path settles
CurrentSettles ==
  /\ awaited = "current"
  /\ \E ended \in CurrentWeatherOutcomes :
       /\ currentCalls' = Append(currentCalls, ended)
       /\ IF ended = "data"
            THEN /\ awaited' = "returned"
                 /\ returned' = Some(CurrentResult(minutesFromNow, FALSE, None))
                 /\ UNCHANGED <<caught, thrown>>
            ELSE Caught(minutesFromNow, "currentError") /\ UNCHANGED returned
  /\ UNCHANGED <<apiKeyValid, coordinatesOk, minutesFromNow>>
  /\ UNCHANGED <<vars, repeated, travel, routing, page, store, weatherRequest, favoriteRoutes, roundTrip>>

\* the forecast request settles: an error, or a list to choose from
ForecastSettles ==
  /\ awaited = "forecast"
  /\ \/ Caught(minutesFromNow, "requestError") /\ UNCHANGED returned
     \/ \E list \in ForecastChoices :
          LET closest == ClosestForecast(list, minutesFromNow.n)
          IN CASE list = <<>> ->
                    /\ Caught(minutesFromNow, "Invalid or empty forecast data received")
                    /\ UNCHANGED returned
               [] list # <<>> /\ closest = 0 ->
                    /\ Caught(minutesFromNow, "No valid forecast data found for the requested time")
                    /\ UNCHANGED returned
               [] OTHER ->
                    /\ awaited' = "returned"
                    /\ returned' = Some(ForecastResult(minutesFromNow, list[closest]))
                    /\ UNCHANGED <<caught, thrown>>
  /\ UNCHANGED <<apiKeyValid, coordinatesOk, minutesFromNow, currentCalls>>
  /\ UNCHANGED <<vars, repeated, travel, routing, page, store, weatherRequest, favoriteRoutes, roundTrip>>

\* getCurrentWeather of the catch block settles
FallbackSettles ==
  /\ awaited = "fallback"
  /\ \E ended \in CurrentWeatherOutcomes :
       /\ currentCalls' = Append(currentCalls, ended)
       /\ IF ended = "data"
            THEN /\ awaited' = "returned"
                 /\ returned' = Some(CurrentResult(minutesFromNow, TRUE, caught))
                 /\ UNCHANGED thrown
            ELSE /\ awaited' = "thrown"
                 /\ thrown' = Some("fallbackError")
                 /\ UNCHANGED returned
  /\ UNCHANGED <<apiKeyValid, coordinatesOk, minutesFromNow, caught>>
  /\ UNCHANGED <<vars, repeated, travel, routing, page, store, weatherRequest, favoriteRoutes, roundTrip>>

InitWeatherAtTime ==
  /\ NoCall /\ FirstCall /\ InitialTravel /\ NoRouting /\ NoSubmit /\ NoStore
  /\ NoWeatherRequest /\ NoWeatherAtTime /\ NoFavorites /\ NoRoundTrip

NextWeatherAtTime ==
  \/ AtTimeStart
  \/ CurrentSettles
  \/ ForecastSettles
  \/ FallbackSettles

SpecWeatherAtTime == InitWeatherAtTime /\ [][NextWeatherAtTime]_weatherAtTime

\* ------------------------------------- the coordinates of a saved route
\* routeData.coordinates of saveRouteHistory, flattened into the document,
\* and rebuilt by handleLoadHistoryRoute.

\* 180 degrees of lng
HalfTurn == 180 * 111 * UnitsPerKm

\* pairs on and beyond the bounds of the ranges
PairChoices ==
  {<<lat, lng>> : lat \in {-90, 0, 90, 91},
                  lng \in {-HalfTurn - 1, -HalfTurn, 0, HalfTurn}}

RECURSIVE ListsOf(_, _)
ListsOf(choices, n) ==
  IF n = 0 THEN {<<>>}
  ELSE LET shorter == ListsOf(choices, n - 1)
       IN shorter \cup {Append(list, c) : list \in shorter, c \in choices}

\* coordinates: routeData.coordinates ? routeData.coordinates.flat() : []
SaveCoordinates ==
  /\ stored = None
  /\ stored' = Some(Flat(given))
  /\ UNCHANGED <<given, rebuilt>>
  /\ UNCHANGED <<vars, repeated, travel, routing, page, store, weatherRequest, weatherAtTime, favoriteRoutes>>

\* the loop over historyRoute.coordinates
LoadCoordinates ==
  /\ stored # None
  /\ rebuilt = None
  /\ rebuilt' = Some(Pairs(stored[1]))
  /\ UNCHANGED <<given, stored>>
  /\ UNCHANGED <<vars, repeated, travel, routing, page, store, weatherRequest, weatherAtTime, favoriteRoutes>>

InitRoundTrip ==
  /\ NoCall /\ FirstCall /\ InitialTravel /\ NoRouting /\ NoSubmit /\ NoStore
  /\ NoWeatherRequest /\ NoWeatherAtTime /\ NoFavorites
  /\ given \in ListsOf(PairChoices, MaxLen)
  /\ stored = None
  /\ rebuilt = None

NextRoundTrip ==
  \/ SaveCoordinates
  \/ LoadCoordinates

SpecRoundTrip == InitRoundTrip /\ [][NextRoundTrip]_roundTrip

\* --------------------------------------------------------------- claims

\* the polyline passed has at least 2 points
HasRoute == routeCoordinates # None /\ Len(routeCoordinates[1]) >= 2

\* every point of the polyline is a [lat, lng] pair
WellFormed == \A i \in 1..Len(routeCoordinates[1]) : Len(routeCoordinates[1][i]) = 2

\* intervalMinutes > 0, averageSpeedKmh > 0, departureOffsetMinutes >= 0
ValidParameters ==
  intervalMinutes > 0 /\ averageSpeedKmh > 0 /\ departureTimeMinutes >= 0

\* the total length of the polyline passed: the distances between its
\* consecutive points, added up
RECURSIVE PathLength(_)
PathLength(points) ==
  IF Len(points) < 2 THEN 0
  ELSE Abs(points[2][2] - points[1][2]) + PathLength(Tail(points))

RouteLength == PathLength(routeCoordinates[1])

First(s) == s[1]

Last(s) == s[Len(s)]

\* a fault of turf.along fell on a distance the loop sampled
SampleSkipped ==
  /\ distancePerInterval > 0
  /\ \E d \in alongFaults : d % distancePerInterval = 0 /\ d < totalDistance

\* C1 as stated: for a polyline of at least 2 points and valid parameters,
\* on every path, the fallback included, the result is non-empty, starts at
\* distance 0 and ends at the polyline's total length.
C1_EndsAtTotalLengthOnEveryPath ==
  (pc = "done" /\ HasRoute /\ WellFormed /\ ValidParameters) =>
    /\ result # <<>>
    /\ First(result).distanceFromStart = 0
    /\ Last(result).distanceFromStart = RouteLength

\* C1 as amended: for a polyline of at least 2 points and valid parameters
\* the result is non-empty and starts at distance 0; it ends at the
\* polyline's total length on the short-route and general paths, whether or
\* not interior samples were skipped, and at distance 0 on the fallback path.
C1_EndsAtTotalLengthUnlessFallback ==
  (pc = "done" /\ HasRoute /\ WellFormed /\ ValidParameters) =>
    /\ result # <<>>
    /\ First(result).distanceFromStart = 0
    /\ Last(result).distanceFromStart =
         IF returnedAt = "fallback" THEN 0 ELSE RouteLength

\* a general-case return for a route of positive length, one sample skipped
C1_Witness ==
  /\ pc = "done" /\ HasRoute /\ WellFormed /\ ValidParameters
  /\ returnedAt = "general"
  /\ SampleSkipped
  /\ RouteLength > 0
  /\ Last(result).distanceFromStart = RouteLength

\* C2: for a polyline of at least 2 points, the first waypoint returned is
\* the polyline's first point at time departureTimeMinutes and the last
\* waypoint is the polyline's last point, on every return path.
C2_EndpointsAreRouteEnds ==
  (pc = "done" /\ HasRoute) =>
    /\ First(result).coordinates = First(routeCoordinates[1])
    /\ First(result).estimatedTime = Num(departureTimeMinutes, 1)
    /\ Last(result).coordinates = Last(routeCoordinates[1])

\* a general-case return with interior samples, route ends apart
C2_Witness ==
  /\ pc = "done" /\ HasRoute
  /\ returnedAt = "general"
  /\ Len(result) >= 3
  /\ First(routeCoordinates[1]) # Last(routeCoordinates[1])
  /\ Last(result).coordinates = Last(routeCoordinates[1])

\* C3: in every returned sequence distanceFromStart is non-decreasing and
\* never exceeds the polyline's total length.
C3_DistancesOrdered ==
  pc = "done" =>
    /\ \A i \in 1..(Len(result) - 1) :
         result[i].distanceFromStart <= result[i + 1].distanceFromStart
    /\ (HasRoute /\ WellFormed) =>
         \A i \in 1..Len(result) : result[i].distanceFromStart <= RouteLength

\* a general-case return whose last step is shorter than the others
C3_Witness ==
  /\ pc = "done" /\ returnedAt = "general"
  /\ Len(result) >= 4
  /\ Last(result).distanceFromStart - result[Len(result) - 1].distanceFromStart
       < distancePerInterval

\* C4 as stated: in every returned sequence estimatedTime is non-decreasing
\* and no estimatedTime is smaller than departureTimeMinutes.
C4_TimesOrdered ==
  pc = "done" =>
    /\ \A i \in 1..(Len(result) - 1) :
         Leq(result[i].estimatedTime, result[i + 1].estimatedTime)
    /\ \A i \in 1..Len(result) :
         Leq(Num(departureTimeMinutes, 1), result[i].estimatedTime)


\* C5: a polyline of at least 2 points whose total length is at most
\* averageSpeedKmh * intervalMinutes / 60 gives exactly two waypoints: the
\* start at distance 0 and time departureTimeMinutes, the end at the total
\* length and time departureTimeMinutes + totalDistance / averageSpeedKmh * 60
\* (0 / 0 being NaN); 10 km at 80 km/h and 30 minutes gives (10 km, 7.5 min).
C5_ShortRouteIsStartAndEnd ==
  (/\ pc = "done" /\ HasRoute /\ WellFormed /\ ~geometryFault
   /\ RouteLength <= averageSpeedKmh * intervalMinutes) =>
    /\ Len(result) = 2
    /\ result[1].coordinates = First(routeCoordinates[1])
    /\ result[1].distanceFromStart = 0
    /\ result[1].estimatedTime = Num(departureTimeMinutes, 1)
    /\ result[2].coordinates = Last(routeCoordinates[1])
    /\ result[2].distanceFromStart = RouteLength
    /\ LET t == result[2].estimatedTime
       IN  IF averageSpeedKmh = 0 THEN t.kind = "nan"
           ELSE /\ t.kind = "num"
                /\ t.d > 0
                /\ t.n * averageSpeedKmh =
                     (departureTimeMinutes * averageSpeedKmh + RouteLength) * t.d
    /\ (/\ routeCoordinates = Some(<<Point(0), Point(10)>>)
        /\ averageSpeedKmh = 80 /\ intervalMinutes = 30
        /\ departureTimeMinutes = 0) =>
         /\ result[2].distanceFromStart = 10 * UnitsPerKm
         /\ result[2].estimatedTime = [kind |-> "num", n |-> 15, d |-> 2]

\* the 10 km route at 80 km/h and 30 minutes has returned
C5_Witness ==
  /\ pc = "done"
  /\ routeCoordinates = Some(<<Point(0), Point(10)>>)
  /\ averageSpeedKmh = 80 /\ intervalMinutes = 30
  /\ ~geometryFault
  /\ Len(result) = 2

\* C6: a polyline that is missing, empty or of one point gives the empty
\* sequence, without an error, whatever the other parameters.
C6_DegenerateIsEmpty ==
  (routeCoordinates = None \/ Len(routeCoordinates[1]) <= 1) =>
    /\ pc \in {"guard", "done"}
    /\ pc = "done" => result = <<>>

\* a one-point polyline with a non-positive interval has returned
C6_Witness ==
  /\ pc = "done"
  /\ routeCoordinates # None
  /\ Len(routeCoordinates[1]) = 1
  /\ intervalMinutes <= 0
  /\ result = <<>>

IsPrefix(s, t) == Len(s) <= Len(t) /\ \A i \in 1..Len(s) : s[i] = t[i]

\* the call goes the way of a call that returns `expected`: the list it is
\* building is the beginning of `expected`, and it returns `expected`
GoesLike(expected) ==
  /\ pc = "loop" => IsPrefix(segments, expected)
  /\ pc = "done" => result = expected

\* C7 as stated: a call with intervalMinutes <= 0 behaves as the same call
\* with intervalMinutes = 30 (for a speed with which that call returns).
C7_NonPositiveIntervalIsThirty ==
  (passed.intervalMinutes # None /\ intervalMinutes <= 0
   /\ averageSpeedKmh > 0) =>
    GoesLike(CalculateRouteSegments(routeCoordinates, 30, averageSpeedKmh,
                                    departureTimeMinutes, alongFaults,
                                    geometryFault))

\* C8 as stated: a call with averageSpeedKmh <= 0 behaves as the same call
\* with averageSpeedKmh = 80, no time being computed from the speed passed
\* (for an interval with which that call returns).
C8_NonPositiveSpeedIsEighty ==
  (passed.averageSpeedKmh # None /\ averageSpeedKmh <= 0
   /\ intervalMinutes > 0) =>
    GoesLike(CalculateRouteSegments(routeCoordinates, intervalMinutes, 80,
                                    departureTimeMinutes, alongFaults,
                                    geometryFault))

\* C9 as stated: the sampling loop ends after a number of iterations bounded
\* by the inputs.  Every iteration that changes the state moves the cursor
\* forward, and never beyond the end of the route.
C9_LoopAdvances ==
  [][(pc = "loop" /\ pc' = "loop") =>
       /\ currentDistance' > currentDistance
       /\ currentDistance' <= totalDistance]_vars

\* the loop is running with a step that is not positive
Doomed ==
  /\ pc = "loop"
  /\ LoopCondition(currentDistance, totalDistance, distancePerInterval)
  /\ distancePerInterval <= 0

\* a call that is Doomed stays so: its loop condition never fails
DoomedForever == [][Doomed => Doomed']_vars

\* C10 as stated: no exception reaches the caller and the call returns a
\* waypoint sequence, also when a parameter is not positive.  The call is
\* never left by an exception and never in a loop that cannot end.
C10_ReturnsWithoutThrowing == pc # "thrown" /\ ~Doomed


\* the call is one of the general case: the polyline is measured and is
\* longer than the positive distance of one interval
GeneralCase ==
  /\ HasRoute /\ WellFormed /\ ~geometryFault
  /\ averageSpeedKmh * intervalMinutes > 0
  /\ RouteLength > averageSpeedKmh * intervalMinutes

\* the distances the loop samples: the multiples of the distance of one
\* interval that lie before the end of the route
SampleDistances ==
  LET step == averageSpeedKmh * intervalMinutes
      count == IF step > 0 THEN (RouteLength - 1) \div step ELSE RouteLength
  IN {k * step : k \in 1..count}

\* no sample falls on a distance at which turf.along throws
NoInterpolationFailure == SampleDistances \cap alongFaults = {}

\* C11: in the general case a sample whose interpolation fails is skipped
\* and nothing else: the result starts with the start and ends with the end,
\* its interior waypoints are, in order, the samples whose interpolation
\* succeeded, and its indices count from 0 without a gap.
C11_OnlyFailedSamplesSkipped ==
  (pc = "done" /\ GeneralCase) =>
    /\ Len(result) >= 2
    /\ First(result).coordinates = First(routeCoordinates[1])
    /\ First(result).distanceFromStart = 0
    /\ Last(result).coordinates = Last(routeCoordinates[1])
    /\ Last(result).distanceFromStart = RouteLength
    /\ {result[i].distanceFromStart : i \in 2..(Len(result) - 1)} =
         SampleDistances \ alongFaults
    /\ \A i \in 2..(Len(result) - 2) :
         result[i].distanceFromStart < result[i + 1].distanceFromStart
    /\ \A i \in 1..Len(result) : result[i].segmentIndex = i - 1

\* a general-case return in which one sample was skipped and one was kept
C11_Witness ==
  /\ pc = "done" /\ GeneralCase
  /\ SampleDistances \cap alongFaults # {}
  /\ SampleDistances \ alongFaults # {}
  /\ Len(result) = Cardinality(SampleDistances \ alongFaults) + 2

\* C12: an error outside the try around turf.along gives exactly two
\* waypoints, the polyline's first and last points, both at distance 0 and
\* time departureTimeMinutes, numbered 0 and 1.
C12_FallbackIsTwoEndpoints ==
  (pc = "done" /\ HasRoute /\ (geometryFault \/ ~WellFormed)) =>
    result =
      << [coordinates |-> First(routeCoordinates[1]), distanceFromStart |-> 0,
          estimatedTime |-> [kind |-> "num", n |-> departureTimeMinutes, d |-> 1],
          segmentIndex |-> 0],
         [coordinates |-> Last(routeCoordinates[1]), distanceFromStart |-> 0,
          estimatedTime |-> [kind |-> "num", n |-> departureTimeMinutes, d |-> 1],
          segmentIndex |-> 1] >>

\* the catch block has returned for a route of positive length
C12_Witness ==
  /\ pc = "done" /\ HasRoute /\ WellFormed /\ geometryFault
  /\ returnedAt = "fallback"
  /\ RouteLength > 0
  /\ Len(result) = 2

\* C13 as stated: every waypoint returned carries a segmentIndex equal to
\* its position in the sequence, counted from 0, on every return path.
C13_IndexIsPosition ==
  pc = "done" =>
    \A i \in 1..Len(result) :
      /\ "segmentIndex" \in DOMAIN result[i]
      /\ result[i].segmentIndex = i - 1

\* C18: in the general case without interpolation failure the waypoint at
\* position i, the last excepted, is at distance
\* i * averageSpeedKmh * intervalMinutes / 60.
C18_SamplesAtMultiples ==
  (pc = "done" /\ GeneralCase /\ NoInterpolationFailure) =>
    \A i \in 1..(Len(result) - 1) :
      result[i].distanceFromStart =
        (i - 1) * averageSpeedKmh * intervalMinutes

\* a general-case return with two samples, none failed
C18_Witness ==
  /\ pc = "done" /\ GeneralCase /\ NoInterpolationFailure
  /\ Len(result) >= 4
  /\ result[3].distanceFromStart = 2 * averageSpeedKmh * intervalMinutes

\* the distance between the last two waypoints returned
LastGap ==
  Last(result).distanceFromStart - result[Len(result) - 1].distanceFromStart

\* the last distance the loop samples
LastSample ==
  ((RouteLength - 1) \div (averageSpeedKmh * intervalMinutes))
    * averageSpeedKmh * intervalMinutes

\* C19 as stated: in the general case every interior waypoint is before the
\* end, and the end is more than 0 and at most one interval's distance after
\* the waypoint before it.
C19_LastGapWithinInterval ==
  (pc = "done" /\ GeneralCase) =>
    /\ \A i \in 2..(Len(result) - 1) :
         result[i].distanceFromStart < RouteLength
    /\ LastGap > 0
    /\ LastGap <= averageSpeedKmh * intervalMinutes

\* C19 as amended: the last gap is at most one interval's distance when the
\* interpolation of the last sample did not fail.
C19_LastGapWithinIntervalUnlessSkipped ==
  (pc = "done" /\ GeneralCase) =>
    /\ \A i \in 2..(Len(result) - 1) :
         result[i].distanceFromStart < RouteLength
    /\ LastGap > 0
    /\ LastSample \notin alongFaults =>
         LastGap <= averageSpeedKmh * intervalMinutes

\* a route of exactly three intervals has returned: the last gap is a whole
\* interval and the end is no duplicate of a sample
C19_Witness ==
  /\ pc = "done" /\ GeneralCase /\ NoInterpolationFailure
  /\ RouteLength = 3 * averageSpeedKmh * intervalMinutes
  /\ Len(result) = 4
  /\ LastGap = averageSpeedKmh * intervalMinutes

\* the least n with n * d >= x, for d > 0
CeilDiv(x, d) == (x + d - 1) \div d

\* C20: a polyline of at least 2 points and positive length, with valid
\* parameters and no failure, gives ceil(totalDistance / distancePerInterval)
\* + 1 waypoints; 111 km at 40 km per interval gives 0, 40, 80 and 111 km at
\* 0, 30, 60 and 83.25 minutes.
C20_WaypointCount ==
  (/\ pc = "done" /\ HasRoute /\ WellFormed /\ ~geometryFault
   /\ ValidParameters /\ RouteLength > 0 /\ NoInterpolationFailure) =>
    /\ Len(result) =
         CeilDiv(RouteLength, averageSpeedKmh * intervalMinutes) + 1
    /\ (/\ routeCoordinates = Some(<<Point(0), Point(111)>>)
        /\ averageSpeedKmh = 80 /\ intervalMinutes = 30
        /\ departureTimeMinutes = 0) =>
         /\ [i \in 1..Len(result) |-> result[i].distanceFromStart] =
              <<0, 40 * UnitsPerKm, 80 * UnitsPerKm, 111 * UnitsPerKm>>
         /\ [i \in 1..Len(result) |-> result[i].estimatedTime] =
              << [kind |-> "num", n |-> 0, d |-> 1],
                 [kind |-> "num", n |-> 30, d |-> 1],
                 [kind |-> "num", n |-> 60, d |-> 1],
                 [kind |-> "num", n |-> 333, d |-> 4] >>

\* a route of a whole number of intervals, and the 111 km route, returned
C20_Witness ==
  /\ pc = "done" /\ GeneralCase /\ ValidParameters /\ NoInterpolationFailure
  /\ RouteLength = 3 * averageSpeedKmh * intervalMinutes
  /\ Len(result) = 4

\* an earlier call given what the call followed is given
SameArguments(e) ==
  /\ e.routeCoordinates = routeCoordinates
  /\ e.intervalMinutes = intervalMinutes
  /\ e.averageSpeedKmh = averageSpeedKmh
  /\ e.departureTimeMinutes = departureTimeMinutes

\* C14: two calls given the same polyline, intervalMinutes, averageSpeedKmh
\* and departureTimeMinutes return the same waypoint sequence, whatever the
\* calls made in between were given.
C14_SameArgumentsSameResult ==
  pc = "done" =>
    \A i \in 1..Len(earlier) :
      SameArguments(earlier[i]) => earlier[i].result = result

\* the third call returns sampled waypoints; the first was given the same,
\* the second another route and another interval
C14_Witness ==
  /\ pc = "done" /\ calls = 3 /\ returnedAt = "general"
  /\ SameArguments(earlier[1])
  /\ earlier[2].routeCoordinates # routeCoordinates
  /\ earlier[2].intervalMinutes # intervalMinutes
  /\ Len(earlier[2].result) >= 2

\* C15: no step of a call changes the list of points it was given, and what
\* a call returns is decided by what it was given alone: nothing an earlier
\* call left behind is read.
C15_InputKeptNoStateKept ==
  [][/\ pc # "done" => routeCoordinates' = routeCoordinates
     /\ pc' = "done" =>
          result' = CalculateRouteSegments(routeCoordinates',
                                           intervalMinutes',
                                           averageSpeedKmh',
                                           departureTimeMinutes',
                                           alongFaults', geometryFault')
    ]_<<vars, repeated>>

\* a second call returns sampled waypoints of its polyline after a first
\* call left other sampled waypoints behind
C15_Witness ==
  /\ pc = "done" /\ calls = 2 /\ returnedAt = "general"
  /\ routeCoordinates = Some(<<Point(0), Point(120)>>)
  /\ Len(earlier[1].result) > 2
  /\ earlier[1].result # result

\* C16: whenever a route is present, the stored weatherPoints are what
\* calculateRouteSegments gives for the route's coordinates and the current
\* updateInterval, travelMode and departureTime.
C16_WeatherPointsFollowParameters ==
  route # None =>
    weatherPoints =
      CalculateRouteSegments(route, updateInterval,
                             GetAverageSpeed(travelMode), departureTime, {},
                             FALSE)

\* getRoute has returned or thrown
Settled == at \in {"returned", "thrown"}

Requested(provider) ==
  \E i \in 1..Len(requests) : requests[i].provider = provider

\* OSRM alone without a key; with a key ORS first, and OSRM exactly when the
\* ORS request was made and gave no route
ProvidersInOrder ==
  /\ orsApiKey = "YOUR_ORS_API_KEY" =>
       /\ ~Requested("ORS")
       /\ requests # <<>> => requests[1].provider = "OSRM"
  /\ orsApiKey # "YOUR_ORS_API_KEY" =>
       /\ requests # <<>> => requests[1].provider = "ORS"
       /\ Requested("OSRM") <=> (Requested("ORS") /\ orsAnswer # "route")

\* C17: getRoute asks OSRM directly when no ORS key is configured; with a
\* key it asks ORS first and OSRM if and only if the ORS request fails; and
\* it throws only when the coordinates are invalid or the OSRM request fails.
C17_OrsPrimaryOsrmFallback ==
  Settled =>
    /\ ProvidersInOrder
    /\ at = "thrown" =>
         \/ ~(ValidCoordinates(start) /\ ValidCoordinates(end))
         \/ (Requested("OSRM") /\ osrmAnswer # "route")

\* the definition of routingService with the route history asks the
\* providers in the order of C17
HistoryProvidersInOrder == (Settled /\ loaded = "history") => ProvidersInOrder

\* the plain definition throws only when the coordinates are invalid or the
\* one provider it asked gave no route
PlainFailures ==
  (at = "thrown" /\ loaded = "plain") =>
    \/ start = None \/ end = None
    \/ (Requested("ORS") /\ orsAnswer # "route")
    \/ (Requested("OSRM") /\ osrmAnswer # "route")

\* C21: on the short-route and general-case returns every waypoint's
\* estimatedTime is departureTimeMinutes + distanceFromStart /
\* averageSpeedKmh * 60, the end's from totalDistance like the others.
C21_TimesFromDistances ==
  (pc = "done" /\ returnedAt \in {"short", "general"}) =>
    \A i \in 1..Len(result) :
      result[i].estimatedTime =
        EstimatedTime(departureTimeMinutes, result[i].distanceFromStart,
                      averageSpeedKmh)

\* t + d on doubles, d an integer
Plus(t, d) == IF t.kind = "num" THEN Num(t.n + d * t.d, t.d) ELSE t

\* C22: the call with departure offset d returns what the call with offset
\* 0 returns, as many waypoints with the same coordinates, distances and
\* indices, each estimatedTime larger by d.
C22_DepartureShiftsTimes ==
  pc = "done" =>
    LET base == CalculateRouteSegments(routeCoordinates, intervalMinutes,
                                       averageSpeedKmh, 0, alongFaults,
                                       geometryFault)
    IN  /\ Len(result) = Len(base)
        /\ \A i \in 1..Len(result) :
             result[i] =
               [base[i] EXCEPT
                  !.estimatedTime = Plus(@, departureTimeMinutes)]

\* a call with a departure offset returns sampled waypoints, the last at a
\* time that is no whole number of minutes
C22_Witness ==
  /\ pc = "done" /\ returnedAt = "general" /\ departureTimeMinutes > 0
  /\ Len(result) >= 3
  /\ Last(result).estimatedTime.kind = "num"
  /\ Last(result).estimatedTime.d > 1

\* C23: every distance given to turf.along (the cursor, once advanced) lies
\* between 0 and the total length of the line.
C23_AlongWithinLine ==
  pc = "loop" => (0 <= currentDistance /\ currentDistance <= totalDistance)

\* C24: a submit stores the whole waypoint sequence of its route at once;
\* every weather query started is for a waypoint stored before it starts;
\* and no query, starting or settling in whatever order, changes the
\* sequence stored.
C24_PlannedBeforeLookedUp ==
  [][/\ route' # None =>
          weatherPoints' =
            CalculateRouteSegments(route', updateInterval',
                                   GetAverageSpeed(travelMode'),
                                   departureTime', {}, FALSE)
     /\ \A key \in lookups' \ lookups :
          \E i \in 1..Len(weatherPoints) : key = QueryKey(weatherPoints[i])
     /\ (lookups' # lookups \/ weather' # weather) =>
          weatherPoints' = weatherPoints
    ]_<<travel, page>>

\* the query of the last waypoint has settled while the first waypoint's is
\* still in flight
C24_Witness ==
  /\ route # None /\ Len(weatherPoints) = 4
  /\ QueryKey(weatherPoints[4]) \in weather
  /\ QueryKey(weatherPoints[1]) \in lookups

SavesSettled == \A c \in DOMAIN saves : saves[c].stage \in {"idle", "returned", "thrown"}

NoCleanupFailed == \A c \in DOMAIN saves : ~saves[c].cleanupFailed

C25_KeepsTenLatestOfEachUser ==
  (SavesSettled /\ NoCleanupFailed) =>
    /\ \A u \in Users :
         LET mine == {d \in documents : d.userId = u}
             all == {d \in everStored : d.userId = u}
         IN /\ Cardinality(mine) <= 10
            /\ Cardinality(mine) = IF Cardinality(all) < 10 THEN Cardinality(all) ELSE 10
            /\ \A kept \in mine, gone \in all \ mine : kept.timestamp >= gone.timestamp
    /\ \A x \in deletedBy : x[1].userId = x[2]

\* two saves of u1 have returned, one stored a document as old as the
\* oldest: that one is kept or deleted by its id, ten remain
C25_Witness ==
  /\ SavesSettled /\ NoCleanupFailed
  /\ \A c \in DOMAIN saves : saves[c].stage = "returned" /\ saves[c].userId = "u1"
  /\ Cardinality({d \in documents : d.userId = "u1"}) = 10
  /\ Cardinality({d \in everStored : d.userId = "u1"}) = 11
  /\ \E x \in deletedBy : x[1].timestamp = 1
  /\ Cardinality({d \in documents : d.userId = "u2"}) = 10

\* C26: makeWeatherRequest makes at most maxRetries + 1 attempts (3 when
\* maxRetries is left out); an attempt is followed by another only if it
\* failed with a timeout, a DNS failure, a connection reset, a status 5xx
\* or the status 429; a successful response is returned at once; when it
\* throws, it throws the error of the last attempt made.
Retried(err) ==
  /\ ~err.ok
  /\ \/ err.code \in {"ECONNABORTED", "ENOTFOUND", "ECONNRESET"}
     \/ err.status \in 500..599
     \/ err.status = 429

C26_AttemptsBoundedAndRetriedOnlyOnListedFailures ==
  fetching # "idle" =>
    /\ Len(sent) <= maxRetries[1] + 1
    /\ \A i \in 1..(Len(sent) - 1) : Retried(sent[i])
    /\ fetching \in {"get", "delay"} => \A i \in 1..Len(sent) : Retried(sent[i])
    /\ fetching = "returned" => Last(sent).ok /\ outcome = Some(Last(sent))
    /\ fetching = "thrown" =>
         sent # <<>> /\ ~Last(sent).ok /\ outcome = Some(Last(sent))

\* the default of three attempts used up: a timeout, a 429, then a 503 that
\* is thrown
C26_Witness ==
  /\ fetching = "thrown"
  /\ maxRetries = Some(2)
  /\ Len(sent) = 3
  /\ sent[1].code = "ECONNABORTED"
  /\ sent[2].status = 429
  /\ outcome = Some(AxiosError("ERR_BAD_RESPONSE", 503))

\* C30: getWeatherAtTime throws only after a getCurrentWeather call that
\* failed; when its primary path has raised an error and the
\* getCurrentWeather call that follows succeeds, it returns the current
\* weather with isForecasted = false and fallbackUsed = true.
C30_FailsOnlyWhenCurrentWeatherFails ==
  /\ awaited = "thrown" =>
       currentCalls # <<>> /\ Last(currentCalls) = "error"
  /\ (awaited = "returned" /\ returned[1].source = "current"
        /\ (Len(currentCalls) = 2 \/ ~Immediate(minutesFromNow)))
       => (~returned[1].isForecasted /\ returned[1].fallbackUsed)

\* C27: the favorite that saveAsFavorite stores has the coordinates, the
\* distance and the duration that handleSaveAsFavorite passed, and
\* handleLoadFavorite of a favorite sets the route to the favorite's
\* coordinates and weatherPoints to a non-empty list computed from them.
C27_FavoriteRestored ==
  /\ [][\A favorite \in favorites' \ favorites :
          /\ favorite.coordinates = route /\ route # None
          /\ favorite.distance = Some(RouteDistance(route[1]))
          /\ favorite.duration = Some(RouteDuration(route[1]))]_<<travel, favoriteRoutes>>
  /\ [][(lastLoaded' # lastLoaded) =>
          /\ lastLoaded'[1].coordinates # None
          /\ route' = lastLoaded'[1].coordinates
          /\ weatherPoints' # <<>>
          /\ weatherPoints' =
               CalculateRouteSegments(route', updateInterval',
                                      GetAverageSpeed(travelMode'), 0, {},
                                      FALSE)]_<<travel, favoriteRoutes>>

\* C28: a list of [lat, lng] pairs with every lat in [-90, 90] and every lng
\* in [-180, 180], flattened by saveRouteHistory and rebuilt by
\* handleLoadHistoryRoute, comes back with the same length and the same
\* pairs in the same order.
WithinRanges(pair) ==
  /\ -90 <= pair[1] /\ pair[1] <= 90
  /\ -180 * 111 * UnitsPerKm <= pair[2] /\ pair[2] <= 180 * 111 * UnitsPerKm

C28_CoordinatesSurviveHistory ==
  (rebuilt # None /\ \A i \in 1..Len(given) : WithinRanges(given[i])) =>
    /\ Len(stored[1]) = 2 * Len(given)
    /\ Len(rebuilt[1]) = Len(given)
    /\ \A i \in 1..Len(given) : rebuilt[1][i] = given[i]

\* three pairs on the bounds have made the round trip
C28_Witness ==
  /\ rebuilt # None
  /\ given = << <<90, 180 * 111 * UnitsPerKm>>, <<0, 0>>,
                <<-90, -180 * 111 * UnitsPerKm>> >>
  /\ rebuilt[1][3] = <<-90, -180 * 111 * UnitsPerKm>>

====
